---------------------------- MODULE Spec2Model ----------------------------
(***************************************************************************)
(* Model of the eurlex-unit-parser Unit Tree Builder and Citation Engine.  *)
(*                                                                         *)
(* A document is a tree of nodes (the read-only view the parser has of the *)
(* BeautifulSoup tree); a text is the sequence of its words, so that       *)
(* normalize_text (collapse whitespace, strip) joins words by one blank.   *)
(* Python None is Null for strings and NoInt for integers.                 *)
(***************************************************************************)
EXTENDS Integers, Sequences, FiniteSets, TLC

VARIABLES
    html,        \* the input document handed to parse()
    units,       \* EUParser.units
    unit_ids,    \* EUParser._unit_ids
    validation,  \* EUParser.validation (orphans, counts_parsed)
    calls,       \* number of parse() calls made on the instance
    outcome,     \* how the last entry point ended: "none", "returned", "raised"
    returned,    \* the value the last parse() returned (the units list)
    indexed,     \* TRUE once _build_parent_index has built _unit_map
    stages,      \* entry points run on the injected units, in order
    document_metadata,  \* EUParser.document_metadata
    label_call,  \* a call of normalize_label: its argument and what it returned
    batch,       \* a run of run_batch: its entries, report files and counters
    helper_call  \* a call of a helper function: its name, argument and result

vars == <<html, units, unit_ids, validation, calls, outcome, returned, indexed, stages,
          document_metadata, label_call, batch, helper_call>>

\* the state outside the parser object
others == <<label_call, batch, helper_call>>

Null == "<None>"
NoInt == 0 - 1

(***************************************************************************)
(* Text helpers                                                            *)
(***************************************************************************)
RECURSIVE SumLen(_)
SumLen(ws) == IF ws = <<>> THEN 0 ELSE Len(Head(ws)) + SumLen(Tail(ws))

\* len() of the words joined by single blanks
CharLen(ws) == IF ws = <<>> THEN 0 ELSE SumLen(ws) + Len(ws) - 1

RECURSIVE JoinStr(_)
JoinStr(ws) ==
    IF ws = <<>> THEN ""
    ELSE IF Len(ws) = 1 THEN ws[1]
    ELSE ws[1] \o " " \o JoinStr(Tail(ws))

RECURSIVE Flatten(_)
Flatten(ss) == IF ss = <<>> THEN <<>> ELSE Head(ss) \o Flatten(Tail(ss))

normalize_text(ws) == ws

\* s occurs in t as a contiguous run of words
Contains(t, s) ==
    \E i \in 0..(Len(t) - Len(s)) : \A j \in 1..Len(s) : t[i + j] = s[j]

NumDotWords == {"1.", "2."}
NumDotValue(w) == IF w = "1." THEN "1" ELSE "2"

strip_leading_label(ws) ==
    IF Len(ws) >= 2 /\ ws[1] \in NumDotWords
    THEN <<Tail(ws), NumDotValue(ws[1])>>
    ELSE <<ws, Null>>

(***************************************************************************)
(* Labels                                                                  *)
(***************************************************************************)
\* A label is a body, optionally between parentheses, optionally followed by
\* a dot and optionally preceded by a quote character of QUOTE_CHARS.
Render(p) ==
    (IF p.quote THEN "'" ELSE "") \o (IF p.open THEN "(" ELSE "") \o p.body
        \o (IF p.close THEN ")" ELSE "") \o (IF p.dot THEN "." ELSE "")

DigitBodies == {"1", "2", "3"}
\* the alternatives of SUBPOINT_LABEL_RE: i .. xxxix
RomanBodies ==
    {"i", "ii", "iii", "iv", "v", "vi", "vii", "viii", "ix", "x",
     "xi", "xii", "xiii", "xiv", "xv", "xvi", "xvii", "xviii", "xix", "xx",
     "xxi", "xxii", "xxiii", "xxiv", "xxv", "xxvi", "xxvii", "xxviii", "xxix", "xxx",
     "xxxi", "xxxii", "xxxiii", "xxxiv", "xxxv", "xxxvi", "xxxvii", "xxxviii", "xxxix"}
\* [a-z]{1,2}: the one- and two-letter bodies of the model
AlphaBodies == {"a", "b", "c", "aa"} \cup {r \in RomanBodies : Len(r) <= 2}
DashBodies == {"-"}
LabelBodies == DigitBodies \cup RomanBodies \cup AlphaBodies \cup DashBodies \cup {"abc"}

LabelShapes ==
    [quote : BOOLEAN, open : BOOLEAN, body : LabelBodies, close : BOOLEAN, dot : BOOLEAN]

\* A raw label, decomposed into the pieces the label regexes look at: the
\* labels of the input documents directly, any other label by its shape.
LabelParts(l) ==
    CASE l = "(a)"  -> [quote |-> FALSE, open |-> TRUE,  body |-> "a",  close |-> TRUE,  dot |-> FALSE]
      [] l = "(b)"  -> [quote |-> FALSE, open |-> TRUE,  body |-> "b",  close |-> TRUE,  dot |-> FALSE]
      [] l = "(c)"  -> [quote |-> FALSE, open |-> TRUE,  body |-> "c",  close |-> TRUE,  dot |-> FALSE]
      [] l = "(i)"  -> [quote |-> FALSE, open |-> TRUE,  body |-> "i",  close |-> TRUE,  dot |-> FALSE]
      [] l = "(ii)" -> [quote |-> FALSE, open |-> TRUE,  body |-> "ii", close |-> TRUE,  dot |-> FALSE]
      [] l = "(1)"  -> [quote |-> FALSE, open |-> TRUE,  body |-> "1",  close |-> TRUE,  dot |-> FALSE]
      [] l = "1."   -> [quote |-> FALSE, open |-> FALSE, body |-> "1",  close |-> FALSE, dot |-> TRUE]
      [] l = "'(a)" -> [quote |-> TRUE,  open |-> TRUE,  body |-> "a",  close |-> TRUE,  dot |-> FALSE]
      [] l = "-"    -> [quote |-> FALSE, open |-> FALSE, body |-> "-",  close |-> FALSE, dot |-> FALSE]
      [] OTHER      ->
            IF \E p \in LabelShapes : Render(p) = l
            THEN CHOOSE p \in LabelShapes : Render(p) = l
            ELSE [quote |-> FALSE, open |-> FALSE, body |-> l, close |-> FALSE, dot |-> FALSE]

PARAGRAPH_NUM_RE(p) == p.body \in DigitBodies /\ ~p.open /\ ~p.close /\ p.dot
NUMERIC_LABEL_RE(p) == p.body \in DigitBodies
SUBPOINT_LABEL_RE(p) == p.body \in RomanBodies /\ ~p.dot
POINT_LABEL_RE(p) == p.body \in AlphaBodies /\ ~p.dot
DASH_LABEL_RE(p) == p.body \in DashBodies /\ ~p.open /\ ~p.close /\ ~p.dot

\* a normalize_label that tries the alphabetic pattern before the roman one
PointBeforeSubpoint(label) ==
    LET Classify(p) ==
            IF PARAGRAPH_NUM_RE(p) /\ ~p.open THEN <<p.body, "paragraph", p.quote>>
            ELSE IF NUMERIC_LABEL_RE(p) THEN <<p.body, "numeric", p.quote>>
            ELSE IF POINT_LABEL_RE(p) THEN <<p.body, "point", p.quote>>
            ELSE IF SUBPOINT_LABEL_RE(p) THEN <<p.body, "subpoint", p.quote>>
            ELSE IF DASH_LABEL_RE(p) THEN <<"-", "dash", p.quote>>
            ELSE <<Render([p EXCEPT !.quote = FALSE]), "unknown", p.quote>>
    IN  Classify(LabelParts(label))

\* <<normalized_label, label_type, is_quoted>>; the dash "\u2014" is "-"
normalize_label(label) ==
    LET Classify(p) ==
            IF PARAGRAPH_NUM_RE(p) /\ ~p.open THEN <<p.body, "paragraph", p.quote>>
            ELSE IF NUMERIC_LABEL_RE(p) THEN <<p.body, "numeric", p.quote>>
            ELSE IF SUBPOINT_LABEL_RE(p) THEN <<p.body, "subpoint", p.quote>>
            ELSE IF POINT_LABEL_RE(p) THEN <<p.body, "point", p.quote>>
            ELSE IF DASH_LABEL_RE(p) THEN <<"-", "dash", p.quote>>
            ELSE <<Render([p EXCEPT !.quote = FALSE]), "unknown", p.quote>>
    IN  Classify(LabelParts(label))

(***************************************************************************)
(* Document nodes                                                          *)
(***************************************************************************)
P(cls, t) == [k |-> "p", cls |-> cls, text |-> t]
Str(t) == [k |-> "str", text |-> t]
Div(id, kids) == [k |-> "div", id |-> id, cls |-> "", kids |-> kids]
Td(kids) == [kids |-> kids]
Table(cols, rows) == [k |-> "table", cols |-> cols, rows |-> rows]

IsTag(n) == n.k # "str"

\* Tag.get_text(separator=" ", strip=True) of a node, nested tables removed
\* when noTables
RECURSIVE NodeText(_, _)
RECURSIVE KidsText(_, _)
NodeText(n, noTables) ==
    IF n.k \in {"p", "str"} THEN n.text
    ELSE IF n.k = "div" THEN KidsText(n.kids, noTables)
    ELSE IF noTables THEN <<>>
    ELSE Flatten([r \in 1..Len(n.rows) |->
            Flatten([c \in 1..Len(n.rows[r]) |-> KidsText(n.rows[r][c].kids, noTables)])])
KidsText(kids, noTables) ==
    Flatten([i \in 1..Len(kids) |-> NodeText(kids[i], noTables)])

IsKind(n, kind) == n.k = kind
KidsOf(kids, kind) == SelectSeq(kids, LAMBDA n : n.k = kind)


\* every descendant <p> of a node list, in document order (find_all("p"))
RECURSIVE AllPs(_)
RECURSIVE NodePs(_)
NodePs(n) ==
    IF n.k = "p" THEN <<n>>
    ELSE IF n.k = "div" THEN AllPs(n.kids)
    ELSE IF n.k = "table" THEN
        Flatten([r \in 1..Len(n.rows) |->
            Flatten([c \in 1..Len(n.rows[r]) |-> AllPs(n.rows[r][c].kids)])])
    ELSE <<>>
AllPs(kids) == Flatten([i \in 1..Len(kids) |-> NodePs(kids[i])])

\* the text left in a node list once every <p> and <table> is decomposed;
\* with noDivs the <div>s are decomposed as well
RECURSIVE BareText(_, _)
BareText(kids, noDivs) ==
    Flatten([i \in 1..Len(kids) |->
        IF kids[i].k = "str" THEN kids[i].text
        ELSE IF kids[i].k = "div" /\ ~noDivs THEN BareText(kids[i].kids, noDivs)
        ELSE <<>>])

\* every <tr> under a table, nested tables' rows included (find_all("tr"))
RECURSIVE AllRows(_)
RECURSIVE KidsRows(_)
AllRows(t) ==
    Flatten([r \in 1..Len(t.rows) |->
        <<t.rows[r]>> \o
        Flatten([c \in 1..Len(t.rows[r]) |-> KidsRows(t.rows[r][c].kids)])])
KidsRows(kids) ==
    Flatten([i \in 1..Len(kids) |->
        IF kids[i].k = "table" THEN AllRows(kids[i])
        ELSE IF kids[i].k = "div" THEN KidsRows(kids[i].kids)
        ELSE <<>>])

\* every <td> under a row, nested tables' cells included (find_all(["td","th"]))
RECURSIVE AllCells(_)
AllCells(row) ==
    Flatten([c \in 1..Len(row) |->
        <<row[c]>> \o
        LET inner == KidsRows(row[c].kids) IN
        Flatten([r \in 1..Len(inner) |-> inner[r]])])

\* text of a label cell: its first direct <p>, else the whole cell
LabelText(cell) ==
    LET ps == KidsOf(cell.kids, "p") IN
    IF ps # <<>> THEN JoinStr(ps[1].text) ELSE JoinStr(KidsText(cell.kids, FALSE))

is_list_table(table) ==
    LET has_cols == Len(table.cols) = 2
        ShortLabel(text) == Len(text) <= 15 /\ normalize_label(text)[2] # "unknown"
    IN  IF has_cols /\ table.cols[1] # NoInt /\ table.cols[1] > 15 THEN FALSE
        ELSE IF table.rows = <<>> THEN FALSE
        ELSE IF ~has_cols /\ Len(table.rows[1]) # 2 THEN FALSE
        ELSE IF table.rows[1] = <<>> THEN FALSE
        ELSE ShortLabel(LabelText(table.rows[1][1]))

\* get_cell_text(cell, exclude_nested_tables=True): loop state is
\* <<texts, stopped>>
RECURSIVE CellTextLoop(_, _, _, _)
CellTextLoop(kids, i, has_nested, acc) ==
    IF i > Len(kids) THEN acc
    ELSE LET n == kids[i] IN
         IF n.k = "str" THEN
            CellTextLoop(kids, i + 1, has_nested,
                         IF n.text # <<>> THEN Append(acc, n.text) ELSE acc)
         ELSE IF n.k = "table" THEN acc
         ELSE IF n.k = "p" THEN
            IF n.cls = "oj-note" THEN CellTextLoop(kids, i + 1, has_nested, acc)
            ELSE IF n.text # <<>> THEN
                IF has_nested THEN Append(acc, n.text)
                ELSE CellTextLoop(kids, i + 1, has_nested, Append(acc, n.text))
            ELSE CellTextLoop(kids, i + 1, has_nested, acc)
         ELSE CellTextLoop(kids, i + 1, has_nested, acc)

get_cell_text(cell, exclude_nested_tables) ==
    IF exclude_nested_tables THEN
        LET has_nested == KidsOf(cell.kids, "table") # <<>> \/ KidsOf(cell.kids, "div") # <<>>
            texts == CellTextLoop(cell.kids, 1, has_nested, <<>>)
        IN  IF texts # <<>> THEN Flatten(texts) ELSE KidsText(cell.kids, TRUE)
    ELSE
        LET paragraphs == SelectSeq(KidsOf(cell.kids, "p"), LAMBDA p : p.text # <<>>) IN
        IF KidsOf(cell.kids, "p") # <<>>
        THEN Flatten([i \in 1..Len(paragraphs) |-> paragraphs[i].text])
        ELSE KidsText(cell.kids, FALSE)

(***************************************************************************)
(* Units and the shared parser state                                       *)
(***************************************************************************)
Unit(id, type, ref, text, parent_id, article_number, paragraph_number) ==
    [id |-> id, type |-> type, ref |-> ref, text |-> text, parent_id |-> parent_id,
     article_number |-> article_number, paragraph_number |-> paragraph_number,
     paragraph_index |-> NoInt, point_label |-> Null, subpoint_label |-> Null,
     subsubpoint_label |-> Null, extra_labels |-> <<>>, subparagraph_index |-> NoInt,
     recital_number |-> Null, annex_number |-> Null, annex_part |-> Null,
     is_amendment_text |-> FALSE, heading |-> Null,
     children_count |-> 0, is_leaf |-> TRUE, is_stem |-> FALSE,
     article_heading |-> Null, word_count |-> 0, char_count |-> 0,
     citations |-> <<>>]

\* the running state of one builder pass: self.units, self._unit_ids and the
\* exception, if any, that is propagating out of parse()
BuilderState(us, ids) == [units |-> us, ids |-> ids, exc |-> Null]

RECURSIVE RenameLoop(_, _, _)
RenameLoop(ids, base_id, suffix) ==
    LET candidate == base_id \o "_" \o ToString(suffix) IN
    IF candidate \in ids THEN RenameLoop(ids, base_id, suffix + 1) ELSE candidate

\* an _add_unit that never renames
KeepId(ids, id) == id

FinalId(ids, id) == IF id \in ids THEN RenameLoop(ids, id, 1) ELSE id

_add_unit(st, unit) ==
    IF st.exc # Null THEN st
    ELSE LET id == FinalId(st.ids, unit.id) IN
         [st EXCEPT !.ids = @ \cup {id},
                    !.units = Append(@, [unit EXCEPT !.id = id])]

(***************************************************************************)
(* Tables: list-tables as points, other tables cell by cell                *)
(***************************************************************************)
max_depth == 10

type_names == <<"point", "subpoint", "subsubpoint">>
id_prefixes == <<"pt", "sub", "subsub">>

\* a table parser that types the rows of every list table as points
PointAtAnyDepth(depth) == "point"

TypeAtDepth(depth) ==
    IF depth < Len(type_names) THEN type_names[depth + 1] ELSE "nested_" \o ToString(depth)
PrefixAtDepth(depth) ==
    IF depth < Len(id_prefixes) THEN id_prefixes[depth + 1] ELSE "n" \o ToString(depth)

child_type_map(parent_type) ==
    CASE parent_type = "paragraph"    -> "subparagraph"
      [] parent_type = "subparagraph" -> "point"
      [] parent_type = "article"      -> "point"
      [] parent_type = "point"        -> "subpoint"
      [] parent_type = "annex_item"   -> "subpoint"
      [] parent_type = "subpoint"     -> "subsubpoint"
      [] parent_type = "subsubpoint"  -> "nested_3"
      [] OTHER                        -> "subparagraph"

NestedTypes == {"nested_" \o ToString(d) : d \in 3..(max_depth + 1)}
NestedDepth(type) == CHOOSE d \in 3..(max_depth + 1) : type = "nested_" \o ToString(d)

ChildTypeOf(us, parent_id) ==
    LET found == SelectSeq(us, LAMBDA u : u.id = parent_id)
        parent_type == IF found # <<>> THEN found[1].type ELSE "paragraph"
    IN  IF parent_type \in NestedTypes
        THEN "nested_" \o ToString(NestedDepth(parent_type) + 1)
        ELSE child_type_map(parent_type)

\* the texts one cell of a non-list table contributes
NonListCellTexts(cell) ==
    LET ps == AllPs(cell.kids)
        long == SelectSeq(ps, LAMBDA p : p.text # <<>> /\ CharLen(p.text) >= 10)
        bare_text == BareText(cell.kids, FALSE)
    IN  [i \in 1..Len(long) |-> normalize_text(long[i].text)] \o
        (IF bare_text # <<>> /\ CharLen(bare_text) >= 10
         THEN <<normalize_text(bare_text)>> ELSE <<>>)

RECURSIVE NonListTexts(_, _, _, _, _, _, _, _)
NonListTexts(st, texts, i, sub_idx, parent_id, child_type, nums, is_amendment) ==
    IF i > Len(texts) \/ st.exc # Null THEN st
    ELSE LET st1 == _add_unit(st,
                [Unit(parent_id \o ".tbl-" \o ToString(sub_idx + i), child_type, Null,
                      texts[i], parent_id, nums[1], nums[2])
                 EXCEPT !.subparagraph_index =
                            IF child_type = "subparagraph" THEN sub_idx + i ELSE NoInt,
                        !.is_amendment_text = is_amendment])
         IN  NonListTexts(st1, texts, i + 1, sub_idx, parent_id, child_type, nums,
                          is_amendment)

_extract_non_list_table_content(st, table, parent_id, article_num, paragraph_num, is_amendment) ==
    LET child_type == ChildTypeOf(st.units, parent_id)
        rows  == AllRows(table)
        cells == Flatten([r \in 1..Len(rows) |-> AllCells(rows[r])])
        texts == Flatten([c \in 1..Len(cells) |-> NonListCellTexts(cells[c])])
    IN  NonListTexts(st, texts, 1, 0, parent_id, child_type,
                     <<article_num, paragraph_num>>, is_amendment)

\* the continuation paragraphs of a content cell that holds nested tables:
\* every direct <p> after the first, oj-note ones skipped
RECURSIVE ContLoop(_, _, _, _, _, _, _, _, _)
ContLoop(st, kids, i, cont_idx, first_p_seen, unit_id, depth, nums, is_amendment) ==
    IF i > Len(kids) \/ st.exc # Null THEN st
    ELSE LET n == kids[i] IN
         IF n.k # "p" \/ n.cls = "oj-note"
         THEN ContLoop(st, kids, i + 1, cont_idx, first_p_seen, unit_id, depth, nums, is_amendment)
         ELSE IF ~first_p_seen
         THEN ContLoop(st, kids, i + 1, cont_idx, TRUE, unit_id, depth, nums, is_amendment)
         ELSE IF n.text # <<>> /\ CharLen(n.text) >= 3
         THEN ContLoop(
                _add_unit(st,
                    [Unit(unit_id \o ".cont-" \o ToString(cont_idx + 1), TypeAtDepth(depth + 1),
                          Null, normalize_text(n.text), unit_id, nums[1], nums[2])
                     EXCEPT !.is_amendment_text = is_amendment]),
                kids, i + 1, cont_idx + 1, first_p_seen, unit_id, depth, nums, is_amendment)
         ELSE ContLoop(st, kids, i + 1, cont_idx, first_p_seen, unit_id, depth, nums, is_amendment)

\* the bare text of a content cell (every p, figure, table and div removed)
BareUnit(st, content_cell, unit_id, depth, nums, is_amendment) ==
    LET bare_text == BareText(content_cell.kids, TRUE) IN
    IF bare_text # <<>> /\ CharLen(bare_text) >= 10
    THEN _add_unit(st,
            [Unit(unit_id \o ".bare-1", TypeAtDepth(depth + 1), Null,
                  normalize_text(bare_text), unit_id, nums[1], nums[2])
             EXCEPT !.is_amendment_text = is_amendment])
    ELSE st

\* the <p> children of the direct <div>s of a content cell
RECURSIVE DivLoop(_, _, _, _, _, _, _, _)
DivLoop(st, ps, i, div_cont_idx, unit_id, depth, nums, is_amendment) ==
    IF i > Len(ps) \/ st.exc # Null THEN st
    ELSE IF ps[i].cls \in {"oj-ti-art", "oj-sti-art", "oj-doc-ti"}
    THEN DivLoop(st, ps, i + 1, div_cont_idx, unit_id, depth, nums, is_amendment)
    ELSE IF ps[i].text # <<>> /\ CharLen(ps[i].text) >= 10
    THEN DivLoop(
            _add_unit(st,
                [Unit(unit_id \o ".div-" \o ToString(div_cont_idx + 1), TypeAtDepth(depth + 1),
                      Null, normalize_text(ps[i].text), unit_id, nums[1], nums[2])
                 EXCEPT !.is_amendment_text = is_amendment]),
            ps, i + 1, div_cont_idx + 1, unit_id, depth, nums, is_amendment)
    ELSE DivLoop(st, ps, i + 1, div_cont_idx, unit_id, depth, nums, is_amendment)

DivParagraphs(content_cell) ==
    LET divs == KidsOf(content_cell.kids, "div") IN
    Flatten([d \in 1..Len(divs) |-> KidsOf(divs[d].kids, "p")])

RECURSIVE _parse_point_tables(_, _, _, _, _, _, _, _)

\* one <tr> of a list-table that has its two cells; label_text and nl are the
\* text of its label cell and normalize_label of that text
PointRow(st, row, label_text, nl, parent_id, nums, depth, is_amendment) ==
    LET unit_id == parent_id \o "." \o PrefixAtDepth(depth) \o "-" \o nl[1]
        \* after the nested tables: continuation paragraphs, bare text, divs
        AfterTables(st1, content_cell) ==
            IF st1.exc # Null THEN st1
            ELSE DivLoop(
                    BareUnit(
                        IF KidsOf(content_cell.kids, "table") # <<>>
                        THEN ContLoop(st1, content_cell.kids, 1, 0, FALSE, unit_id, depth,
                                      nums, is_amendment)
                        ELSE st1,
                        content_cell, unit_id, depth, nums, is_amendment),
                    DivParagraphs(content_cell), 1, 0, unit_id, depth, nums, is_amendment)
    IN  AfterTables(
            _parse_point_tables(
                _add_unit(st,
                    [Unit(unit_id, TypeAtDepth(depth), label_text,
                          normalize_text(get_cell_text(row[2], TRUE)), parent_id,
                          nums[1], nums[2])
                     EXCEPT !.point_label = IF depth = 0 THEN nl[1] ELSE Null,
                            !.subpoint_label = IF depth = 1 THEN nl[1] ELSE Null,
                            !.subsubpoint_label = IF depth = 2 THEN nl[1] ELSE Null,
                            !.extra_labels = IF depth > 2 THEN <<nl[1]>> ELSE <<>>,
                            !.is_amendment_text = is_amendment \/ nl[3]]),
                KidsOf(row[2].kids, "table"), 1, unit_id, nums[1], nums[2], depth + 1,
                is_amendment),
            row[2])

\* "for table in tables: ... for row in rows:" from row r of the first of
\* tables on; a row with fewer than two cells is skipped.  The last row of
\* the last table is walked without a further pass of the loops.
_parse_point_tables(st, tables, r, parent_id, article_num, paragraph_num, depth, is_amendment) ==
    LET done   == depth >= max_depth \/ tables = <<>> \/ st.exc # Null
        listed == is_list_table(Head(tables))
        rows   == Head(tables).rows
        short  == Len(rows[r]) < 2
        last   == r = Len(rows) /\ Len(tables) = 1
    IN  CASE done -> st
          [] ~done /\ ~listed ->
                _parse_point_tables(
                    _extract_non_list_table_content(st, Head(tables), parent_id, article_num,
                                                    paragraph_num, is_amendment),
                    Tail(tables), 1, parent_id, article_num, paragraph_num, depth,
                    is_amendment)
          [] ~done /\ listed /\ r > Len(rows) ->
                _parse_point_tables(st, Tail(tables), 1, parent_id, article_num,
                                    paragraph_num, depth, is_amendment)
          [] ~done /\ listed /\ r <= Len(rows) /\ short ->
                _parse_point_tables(st, tables, r + 1, parent_id, article_num,
                                    paragraph_num, depth, is_amendment)
          [] ~done /\ listed /\ r <= Len(rows) /\ ~short /\ last ->
                PointRow(st, rows[r], LabelText(rows[r][1]),
                         normalize_label(LabelText(rows[r][1])), parent_id,
                         <<article_num, paragraph_num>>, depth, is_amendment)
          [] OTHER ->
                _parse_point_tables(
                    PointRow(st, rows[r], LabelText(rows[r][1]),
                             normalize_label(LabelText(rows[r][1])), parent_id,
                             <<article_num, paragraph_num>>, depth, is_amendment),
                    tables, r + 1, parent_id, article_num, paragraph_num, depth,
                    is_amendment)

(***************************************************************************)
(* OJ walkers                                                              *)
(***************************************************************************)
\* ids of numbered paragraph containers (they match ^\d{3}\.\d{3}$) and the
\* number after the dot
ParDivIds == {"001.001", "001.002", "001.003"}
ParSourceNum(id) ==
    CASE id = "001.001" -> "1" [] id = "001.002" -> "2" [] OTHER -> "3"

BodyClasses == {"oj-normal", "oj-ti-tbl", "oj-note"}

\* loop variables of _parse_paragraphs and _parse_article_direct_content
WalkState(st) ==
    [st |-> st, par_num |-> Null, par_id |-> Null, current_parent |-> Null,
     subpar_idx |-> 0, pending_tables |-> <<>>]

\* "if pending_tables and current_parent: self._parse_point_tables(...)"
FlushPending(w, article_num) ==
    IF w.pending_tables # <<>> /\ w.current_parent # Null
    THEN [w EXCEPT !.st = _parse_point_tables(w.st, w.pending_tables, 1, w.current_parent,
                                              article_num, w.par_num, 0, FALSE),
                   !.pending_tables = <<>>]
    ELSE w

\* a body <p> of a numbered paragraph container: the first one opens the
\* paragraph, the later ones are its subparagraphs
ParagraphP(w0, text, article_id, article_num, idx, par_source_id, source_id) ==
    LET sl == strip_leading_label(text)
        par_num == sl[2]
        par_id == IF par_num # Null THEN article_id \o ".par-" \o par_num
                  ELSE article_id \o ".par-" \o ToString(idx + 1)
        Flushed(w) ==
            IF w.par_id = Null THEN
                [w EXCEPT
                    !.st = _add_unit(w.st,
                        [Unit(par_id, "paragraph",
                              IF par_num # Null THEN par_num \o "." ELSE Null,
                              normalize_text(sl[1]), article_id, article_num, par_num)
                         EXCEPT !.paragraph_index = IF par_num = Null THEN idx + 1 ELSE NoInt]),
                    !.par_num = par_num, !.par_id = par_id, !.current_parent = par_id]
            ELSE
                [w EXCEPT
                    !.st = _add_unit(w.st,
                        Unit(w.par_id \o ".subpar-" \o ToString(w.subpar_idx + 1),
                             "subparagraph", Null, normalize_text(text), w.par_id,
                             article_num, w.par_num)),
                    !.subpar_idx = @ + 1,
                    !.current_parent = w.par_id \o ".subpar-" \o ToString(w.subpar_idx + 1)]
    IN  Flushed(FlushPending(w0, article_num))

\* a bare text node of a numbered paragraph container
ParagraphBare(w, text, article_num) ==
    IF w.par_id # Null /\ text # <<>> /\ CharLen(text) >= 10 THEN
        LET subpar_id == w.par_id \o ".subpar-" \o ToString(w.subpar_idx + 1) IN
        [w EXCEPT
            !.st = _add_unit(w.st,
                Unit(subpar_id, "subparagraph", Null, normalize_text(text), w.par_id,
                     article_num, w.par_num)),
            !.subpar_idx = @ + 1, !.current_parent = subpar_id]
    ELSE w

IsWrapperDiv(n) == n.id = "" /\ n.cls \notin {"eli-subdivision", "eli-title"}

RECURSIVE ParagraphDivPs(_, _, _, _, _, _, _)
ParagraphDivPs(w, ps, i, article_id, article_num, idx, par_source_id) ==
    IF i > Len(ps) THEN w
    ELSE ParagraphDivPs(
            ParagraphP(w, ps[i].text, article_id, article_num, idx, par_source_id, ""),
            ps, i + 1, article_id, article_num, idx, par_source_id)

RECURSIVE ParagraphChildren(_, _, _, _, _, _, _)
ParagraphChildren(w, kids, i, article_id, article_num, idx, par_source_id) ==
    IF i > Len(kids) THEN w
    ELSE LET child == kids[i]
             w1 == IF child.k = "str"
                   THEN ParagraphBare(w, child.text, article_num)
                   ELSE IF child.k = "p" /\ child.cls \in BodyClasses
                   THEN ParagraphP(w, child.text, article_id, article_num, idx,
                                   par_source_id, "")
                   ELSE IF child.k = "table"
                   THEN [w EXCEPT !.pending_tables = Append(@, child)]
                   ELSE IF child.k = "div" /\ IsWrapperDiv(child)
                   THEN ParagraphDivPs(w,
                            SelectSeq(KidsOf(child.kids, "p"), LAMBDA p : p.cls = "oj-normal"),
                            1, article_id, article_num, idx, par_source_id)
                   ELSE w
         IN  ParagraphChildren(w1, kids, i + 1, article_id, article_num, idx, par_source_id)

\* the tables still pending when a paragraph container ends
ParagraphTail(w, article_id, article_num, idx, par_source_id) ==
    LET orphaned == w.current_parent = Null
        par_num == IF orphaned THEN ParSourceNum(par_source_id) ELSE w.par_num
        par_id == IF orphaned THEN article_id \o ".par-" \o par_num ELSE w.current_parent
    IN  IF w.pending_tables = <<>> THEN w.st
        ELSE _parse_point_tables(
                IF orphaned
                THEN _add_unit(w.st, Unit(par_id, "paragraph", par_num \o ".", <<>>,
                                          article_id, article_num, par_num))
                ELSE w.st,
                w.pending_tables, 1, par_id, article_num, par_num, 0, FALSE)

RECURSIVE _parse_paragraphs(_, _, _, _, _)
_parse_paragraphs(st, paragraph_divs, idx, article_id, article_num) ==
    IF idx >= Len(paragraph_divs) THEN st
    ELSE LET par_div == paragraph_divs[idx + 1]
             w == ParagraphChildren(WalkState(st), par_div.kids, 1, article_id, article_num,
                                    idx, par_div.id)
         IN  _parse_paragraphs(ParagraphTail(w, article_id, article_num, idx, par_div.id),
                               paragraph_divs, idx + 1, article_id, article_num)

\* _parse_article_direct_content passes is_direct=True to
\* _parse_point_tables, which has no such parameter: the call raises TypeError
DirectFlush(w) ==
    IF w.pending_tables # <<>> /\ w.current_parent # Null
    THEN [w EXCEPT !.st = [w.st EXCEPT !.exc = "TypeError"]]
    ELSE w

DirectP(w0, text, article_id, article_num) ==
    LET Flushed(w) ==
            IF w.st.exc # Null THEN w
            ELSE IF w.par_id = Null THEN
                [w EXCEPT
                    !.st = _add_unit(w.st,
                        [Unit(article_id \o ".par-1", "paragraph", Null, normalize_text(text),
                              article_id, article_num, Null)
                         EXCEPT !.paragraph_index = 1]),
                    !.par_id = article_id \o ".par-1",
                    !.current_parent = article_id \o ".par-1"]
            ELSE
                [w EXCEPT
                    !.st = _add_unit(w.st,
                        Unit(w.par_id \o ".subpar-" \o ToString(w.subpar_idx + 1),
                             "subparagraph", Null, normalize_text(text), w.par_id,
                             article_num, Null)),
                    !.subpar_idx = @ + 1,
                    !.current_parent = w.par_id \o ".subpar-" \o ToString(w.subpar_idx + 1)]
    IN  Flushed(DirectFlush(w0))

RECURSIVE DirectDivPs(_, _, _, _, _)
DirectDivPs(w, ps, i, article_id, article_num) ==
    IF i > Len(ps) THEN w
    ELSE DirectDivPs(DirectP(w, ps[i].text, article_id, article_num),
                     ps, i + 1, article_id, article_num)

RECURSIVE DirectChildren(_, _, _, _, _)
DirectChildren(w, kids, i, article_id, article_num) ==
    IF i > Len(kids) \/ w.st.exc # Null THEN w
    ELSE LET child == kids[i]
             w1 == IF child.k = "str" THEN w
                   ELSE IF child.k = "p" /\ child.cls \in {"oj-ti-art", "oj-sti-art"} THEN w
                   ELSE IF child.k = "p" /\ child.cls \in BodyClasses
                   THEN DirectP(w, child.text, article_id, article_num)
                   ELSE IF child.k = "table"
                   THEN [w EXCEPT !.pending_tables = Append(@, child)]
                   ELSE IF child.k = "div" /\ IsWrapperDiv(child)
                   THEN DirectDivPs(w,
                            SelectSeq(KidsOf(child.kids, "p"), LAMBDA p : p.cls = "oj-normal"),
                            1, article_id, article_num)
                   ELSE w
         IN  DirectChildren(w1, kids, i + 1, article_id, article_num)

_parse_article_direct_content(st, article_div, article_id, article_num) ==
    DirectFlush(DirectChildren(WalkState(st), article_div.kids, 1, article_id, article_num)).st

\* re.search(r"Amendments?\s+to\b|Amendment\s+of\b", subtitle) on the
\* subtitles of the input documents
AmendmentSubtitles == {"Amendments to Regulation (EC) No 1060/2009"}

\* "is amended as follows" or "are amended as follows" in a text
AmendedAsFollows(t) ==
    \E i \in 1..Len(t) :
        /\ i + 3 <= Len(t)
        /\ t[i] \in {"is", "are"} /\ t[i + 1] = "amended" /\ t[i + 2] = "as"
        /\ t[i + 3] \in {"follows", "follows:"}

\* the test of _parse_articles for an amending article: the subtitle, else
\* the first <p class="oj-normal"> under the container
is_amending(div) ==
    LET normal == SelectSeq(AllPs(div.kids), LAMBDA p : p.cls = "oj-normal") IN
    \/ div.subtitle # Null /\ div.subtitle \in AmendmentSubtitles
    \/ normal # <<>> /\ AmendedAsFollows(normal[1].text)

\* the locals of _parse_amending_article
AmendState(st) ==
    [st |-> st, par_created |-> FALSE, subpar_idx |-> 0, seen_texts |-> {},
     first_p |-> TRUE]

ensure_paragraph(w, article_id, article_num) ==
    IF w.par_created THEN w
    ELSE [w EXCEPT !.par_created = TRUE,
                   !.st = _add_unit(@,
                            [Unit(article_id \o ".par-1", "paragraph", Null, <<>>,
                                  article_id, article_num, Null)
                             EXCEPT !.is_amendment_text = TRUE])]

\* a new subparagraph of the paragraph, made first if it is not there
AmendSubparagraph(w, text, article_id, article_num) ==
    LET Numbered(w1) ==
            [w1 EXCEPT !.subpar_idx = @ + 1,
                       !.st = _add_unit(@,
                                [Unit(article_id \o ".par-1.subpar-"
                                          \o ToString(w1.subpar_idx + 1),
                                      "subparagraph", Null, text,
                                      article_id \o ".par-1", article_num, Null)
                                 EXCEPT !.is_amendment_text = TRUE])]
    IN  Numbered(ensure_paragraph(w, article_id, article_num))

\* a <p> child; stripped is <<text, label>> of strip_leading_label
AmendP(w, stripped, article_id, article_num) ==
    IF normalize_text(stripped[1]) \in w.seen_texts THEN w
    ELSE IF w.first_p /\ ~w.par_created
    THEN [w EXCEPT !.seen_texts = @ \cup {normalize_text(stripped[1])},
                   !.par_created = TRUE,
                   !.first_p = FALSE,
                   !.st = _add_unit(@,
                            [Unit(article_id \o ".par-1", "paragraph",
                                  IF stripped[2] # Null THEN stripped[2] \o "." ELSE Null,
                                  normalize_text(stripped[1]), article_id, article_num, Null)
                             EXCEPT !.is_amendment_text = TRUE])]
    ELSE [AmendSubparagraph(
             [w EXCEPT !.seen_texts = @ \cup {normalize_text(stripped[1])}],
             normalize_text(stripped[1]), article_id, article_num)
          EXCEPT !.first_p = FALSE]

\* a <table> child, the paragraph made first
AmendTable(w, table, article_id, article_num) ==
    [w EXCEPT !.st =
        IF is_list_table(table)
        THEN _parse_point_tables(@, <<table>>, 1, article_id \o ".par-1", article_num,
                                 Null, 0, TRUE)
        ELSE _extract_non_list_table_content(@, table, article_id \o ".par-1",
                                             article_num, Null, TRUE)]

\* walk(container) of _parse_amending_article over the children from i on
RECURSIVE AmendWalk(_, _, _, _, _)
AmendWalk(w, kids, i, article_id, article_num) ==
    IF i > Len(kids) \/ w.st.exc # Null THEN w
    ELSE AmendWalk(
            IF kids[i].k = "str"
            THEN IF /\ kids[i].text # <<>> /\ CharLen(kids[i].text) >= 10
                    /\ normalize_text(kids[i].text) \notin w.seen_texts
                 THEN AmendSubparagraph(
                        [w EXCEPT !.seen_texts = @ \cup {normalize_text(kids[i].text)}],
                        normalize_text(kids[i].text), article_id, article_num)
                 ELSE w
            ELSE IF kids[i].k = "p"
            THEN IF kids[i].cls \in {"oj-note", "oj-ti-art", "oj-sti-art", "oj-doc-ti"}
                 THEN w
                 ELSE IF kids[i].text = <<>> \/ CharLen(kids[i].text) < 3 THEN w
                 ELSE AmendP(w, strip_leading_label(kids[i].text), article_id, article_num)
            ELSE IF kids[i].k = "table"
            THEN AmendTable(ensure_paragraph(w, article_id, article_num), kids[i],
                            article_id, article_num)
            ELSE IF kids[i].k = "div"
            THEN AmendWalk(w, kids[i].kids, 1, article_id, article_num)
            ELSE w,
            kids, i + 1, article_id, article_num)

_parse_amending_article(st, article_div, article_id, article_num) ==
    AmendWalk(AmendState(st), article_div.kids, 1, article_id, article_num).st

\* one article container: [num, subtitle, kids]
ParseArticle(st, div) ==
    LET article_num == div.num
        article_id == "art-" \o article_num
        st1 == _add_unit(st,
                 [Unit(article_id, "article", "Article " \o article_num, <<>>, Null,
                       article_num, Null)
                  EXCEPT !.heading = div.subtitle])
        paragraph_divs == SelectSeq(KidsOf(div.kids, "div"), LAMBDA d : d.id \in ParDivIds)
    IN  IF is_amending(div)
        THEN _parse_amending_article(st1, div, article_id, article_num)
        ELSE IF paragraph_divs # <<>>
        THEN _parse_paragraphs(st1, paragraph_divs, 0, article_id, article_num)
        ELSE _parse_article_direct_content(st1, div, article_id, article_num)

RECURSIVE _parse_articles(_, _)
_parse_articles(st, article_divs) ==
    IF article_divs = <<>> \/ st.exc # Null THEN st
    ELSE _parse_articles(ParseArticle(st, Head(article_divs)), Tail(article_divs))

\* the title container: the texts of its <p>s, "(Text with EEA relevance)"
\* left out; no title container is <<>>
EEARelevance == <<"(Text", "with", "EEA", "relevance)">>

_parse_document_title(st, title_paragraphs) ==
    LET kept == SelectSeq(title_paragraphs, LAMBDA p : p.text # <<>> /\ p.text # EEARelevance)
        title_parts == Flatten([i \in 1..Len(kept) |-> normalize_text(kept[i].text)])
    IN  IF title_parts = <<>> THEN st
        ELSE _add_unit(st, Unit("document-title", "document_title", Null, title_parts,
                                Null, Null, Null))

\* "(1)" -> "1" for the leading label of a recital row
RecitalLabelNum(label_text) ==
    LET p == LabelParts(label_text) IN
    IF p.open /\ p.close /\ p.body \in DigitBodies THEN p.body ELSE Null

RECURSIVE RecitalRows(_, _, _, _, _)
RecitalRows(st, rows, i, recital_num, source_id) ==
    IF i > Len(rows) THEN st
    ELSE LET cells == AllCells(rows[i]) IN
         IF Len(cells) < 2
         THEN RecitalRows(st, rows, i + 1, recital_num, source_id)
         ELSE LET label_text == JoinStr(get_cell_text(cells[1], FALSE))
                  content_text == get_cell_text(cells[2], FALSE)
                  num == IF RecitalLabelNum(label_text) # Null
                         THEN RecitalLabelNum(label_text) ELSE recital_num
              IN  RecitalRows(
                    _add_unit(st,
                        [Unit("recital-" \o num, "recital", label_text,
                              normalize_text(content_text), Null, Null, Null)
                         EXCEPT !.recital_number = num]),
                    rows, i + 1, num, source_id)

\* one recital container: [num, kids]
ParseRecital(st, div) ==
    LET tables == SelectSeq(div.kids, LAMBDA n : n.k = "table")
        p_elements == SelectSeq(AllPs(div.kids), LAMBDA p : p.cls = "oj-normal")
        parts == SelectSeq([i \in 1..Len(p_elements) |->
                               strip_leading_label(p_elements[i].text)[1]],
                           LAMBDA t : t # <<>>)
    IN  IF tables # <<>> /\ is_list_table(tables[1])
        THEN RecitalRows(st, AllRows(tables[1]), 1, div.num, "rct_" \o div.num)
        ELSE IF p_elements # <<>>
        THEN _add_unit(st,
                [Unit("recital-" \o div.num, "recital", "(" \o div.num \o ")",
                      normalize_text(Flatten(parts)), Null, Null, Null)
                 EXCEPT !.recital_number = div.num])
        ELSE st

RECURSIVE _parse_recitals(_, _)
_parse_recitals(st, recital_divs) ==
    IF recital_divs = <<>> THEN st
    ELSE _parse_recitals(ParseRecital(st, Head(recital_divs)), Tail(recital_divs))

(***************************************************************************)
(* Counting and validation                                                 *)
(***************************************************************************)
TypesOf(us) == {us[i].type : i \in 1..Len(us)}
IdsOf(us) == {us[i].id : i \in 1..Len(us)}

_count_expected_elements(doc) ==
    [recitals |-> Len(doc.recitals), articles |-> Len(doc.articles), annexes |-> 0]

_count_parsed_elements(us) ==
    [t \in TypesOf(us) |-> Cardinality({i \in 1..Len(us) : us[i].type = t})]

Orphans(us) ==
    LET bad == SelectSeq(us, LAMBDA u : u.parent_id # Null /\ u.parent_id \notin IdsOf(us)) IN
    [i \in 1..Len(bad) |-> [id |-> bad[i].id, parent_id |-> bad[i].parent_id]]

MaxRecital == 5
RecitalInt(s) == CHOOSE n \in 1..MaxRecital : ToString(n) = s
RecitalNums(us) ==
    {RecitalInt(us[i].recital_number) :
        i \in {j \in 1..Len(us) : us[j].type = "recital"
                                  /\ us[j].recital_number \in {ToString(n) : n \in 1..MaxRecital}}}

SetMax(S) == CHOOSE m \in S : \A x \in S : x <= m

RecitalGaps(us) ==
    LET nums == RecitalNums(us) IN
    IF nums = {} THEN {} ELSE (1..SetMax(nums)) \ nums

_validate(v, us) ==
    [v EXCEPT !.orphans = @ \o Orphans(us),
              !.sequence_gaps = IF RecitalGaps(us) # {}
                                THEN Append(@, [type |-> "recital", missing |-> RecitalGaps(us)])
                                ELSE @]

NewValidation ==
    [counts_expected |-> <<>>, counts_parsed |-> <<>>, sequence_gaps |-> <<>>, orphans |-> <<>>]

(***************************************************************************)
(* Enrichment                                                              *)
(***************************************************************************)
ColonWords == {"text:", "follows:"}

ChildrenCount(us, id) == Cardinality({i \in 1..Len(us) : us[i].parent_id = id})

_compute_children_counts(us) ==
    [i \in 1..Len(us) |->
        [us[i] EXCEPT !.children_count = ChildrenCount(us, us[i].id),
                      !.is_leaf = ChildrenCount(us, us[i].id) = 0]]

_compute_is_stem(us) ==
    [i \in 1..Len(us) |->
        [us[i] EXCEPT !.is_stem = us[i].children_count > 0 /\ us[i].text # <<>>
                                  /\ us[i].text[Len(us[i].text)] \in ColonWords]]

reset_types == {"document_title", "recital", "annex", "annex_part", "annex_item"}

\* current_heading after the first i units have been visited
RECURSIVE HeadingAfter(_, _)
HeadingAfter(us, i) ==
    IF i = 0 THEN Null
    ELSE IF us[i].type = "article" THEN us[i].heading
    ELSE IF us[i].type \in reset_types THEN Null
    ELSE HeadingAfter(us, i - 1)

\* a propagation that gives only the article units a heading
OwnHeadingOnly(us) ==
    [i \in 1..Len(us) |->
        [us[i] EXCEPT !.article_heading =
                        IF us[i].type = "article" THEN us[i].heading ELSE Null]]

_propagate_article_headings(us) ==
    [i \in 1..Len(us) |-> [us[i] EXCEPT !.article_heading = HeadingAfter(us, i)]]

_compute_text_stats(us) ==
    [i \in 1..Len(us) |->
        [us[i] EXCEPT !.word_count = Len(us[i].text), !.char_count = CharLen(us[i].text)]]

\* the headings of the model in which
\* re.search(r"\bdefinitions?\b", heading, re.IGNORECASE) finds a match
DefinitionHeadings == {"Definitions"}

CountType(us, type) == Cardinality({i \in 1..Len(us) : us[i].type = type})

\* the loop over self.units that fills amendment_articles and seen_articles
RECURSIVE AmendmentArticles(_, _, _)
AmendmentArticles(us, i, listed) ==
    IF i > Len(us) THEN listed
    ELSE AmendmentArticles(us, i + 1,
            IF /\ us[i].type = "article" /\ us[i].is_amendment_text
               /\ us[i].article_number # Null
               /\ \A k \in 1..Len(listed) : listed[k] # us[i].article_number
            THEN Append(listed, us[i].article_number) ELSE listed)

\* self.document_metadata before _enrich has assigned it
NoMetadata ==
    [title |-> <<>>, total_units |-> NoInt, total_articles |-> NoInt,
     total_paragraphs |-> NoInt, total_points |-> NoInt, total_definitions |-> NoInt,
     has_annexes |-> FALSE, amendment_articles |-> <<>>]

_compute_document_metadata(us) ==
    LET titles == SelectSeq(us, LAMBDA u : u.type = "document_title")
        definition_article_numbers ==
            {us[i].article_number : i \in {k \in 1..Len(us) :
                /\ us[k].type = "article" /\ us[k].article_number # Null
                /\ us[k].heading # Null /\ us[k].heading \in DefinitionHeadings}}
    IN  [title |-> IF titles = <<>> THEN <<>> ELSE titles[1].text,
         total_units |-> Len(us),
         total_articles |-> CountType(us, "article"),
         total_paragraphs |-> CountType(us, "paragraph"),
         total_points |-> CountType(us, "point"),
         total_definitions |->
            Cardinality({i \in 1..Len(us) :
                us[i].type = "point" /\ us[i].article_number \in definition_article_numbers}),
         has_annexes |-> CountType(us, "annex") > 0,
         amendment_articles |-> AmendmentArticles(us, 1, <<>>)]

\* an enrichment that rewrites the parent edges
Reparent(us) ==
    [i \in 1..Len(us) |->
        [us[i] EXCEPT !.parent_id = IF @ = Null THEN Null ELSE @ \o ".moved"]]

\* the steps of _enrich that change the units (in the order the code runs them)
_enrich(us) ==
    _compute_text_stats(
        _propagate_article_headings(
            _compute_is_stem(
                _compute_children_counts(us))))

(***************************************************************************)
(* Citation extraction                                                     *)
(***************************************************************************)
\* A text is its sequence of blank-separated tokens; a span is a pair of
\* character offsets into the joined text.  The patterns whose keywords
\* (TFEU, Treaty, Charter, Protocol, Chapter, Annex, a comma, "to",
\* "paragraphs", a "(digits)" token of its own, "subparagraph" next to a
\* point or followed by "of Article") occur in no text of
\* the model can match nothing and are left out of the cascade.
Tok(t, i) == IF i >= 1 /\ i <= Len(t) THEN t[i] ELSE ""
TokStart(t, i) == IF i <= 1 THEN 0 ELSE CharLen(SubSeq(t, 1, i - 1)) + 1

\* str.lower() of a token
Lower(w) ==
    CASE w = "Article"    -> "article"
      [] w = "Directive"  -> "directive"
      [] w = "Regulation" -> "regulation"
      [] w = "Decision"   -> "decision"
      [] w = "EU"         -> "eu"
      [] OTHER            -> w

\* what \d+[a-z]? , (?:\((\d+)\))? and (?:\(([a-z0-9]+)\))? take of a token
\* that starts with digits, and the rest of the token
NumParts(w) ==
    CASE w = "5"          -> [article |-> "5",    paragraph |-> Null, point |-> Null, rest |-> ""]
      [] w = "7"          -> [article |-> "7",    paragraph |-> Null, point |-> Null, rest |-> ""]
      [] w = "6(1)"       -> [article |-> "6",    paragraph |-> "1",  point |-> Null, rest |-> ""]
      [] w = "6(1)(c)"    -> [article |-> "6",    paragraph |-> "1",  point |-> "c",  rest |-> ""]
      [] w = "2016/679"   -> [article |-> "2016", paragraph |-> Null, point |-> Null, rest |-> "/679"]
      [] w = "2014/59/EU" -> [article |-> "2014", paragraph |-> Null, point |-> Null, rest |-> "/59/EU"]
      [] w = "2013/36/EU" -> [article |-> "2013", paragraph |-> Null, point |-> Null, rest |-> "/36/EU"]
      [] OTHER            -> [article |-> Null,   paragraph |-> Null, point |-> Null, rest |-> w]

\* the group of \(([a-z0-9]+)\) on a token (re.IGNORECASE)
ParenBody(w) ==
    CASE w = "(a)"  -> "a"
      [] w = "(b)"  -> "b"
      [] w = "(EU)" -> "EU"
      [] OTHER      -> Null

\* the groups act_part1 and act_part2 of _ACT_FRAGMENT on a token
ActParts(w) ==
    CASE w = "2016/679"   -> [act_part1 |-> "2016", act_part2 |-> "679"]
      [] w = "2014/59/EU" -> [act_part1 |-> "2014", act_part2 |-> "59"]
      [] w = "2013/36/EU" -> [act_part1 |-> "2013", act_part2 |-> "36"]
      [] OTHER            -> [act_part1 |-> Null,   act_part2 |-> Null]

_parse_int(value) ==
    CASE value = "1"    -> 1
      [] value = "2"    -> 2
      [] value = "5"    -> 5
      [] value = "6"    -> 6
      [] value = "7"    -> 7
      [] value = "12"   -> 12
      [] value = "36"   -> 36
      [] value = "46"   -> 46
      [] value = "59"   -> 59
      [] value = "92"   -> 92
      [] value = "95"   -> 95
      [] value = "679"  -> 679
      [] value = "999"  -> 999
      [] value = "1234" -> 1234
      [] value = "1408" -> 1408
      [] value = "1900" -> 1900
      [] value = "1901" -> 1901
      [] value = "2013" -> 2013
      [] value = "2014" -> 2014
      [] value = "2016" -> 2016
      [] value = "2100" -> 2100
      [] value = "2101" -> 2101
      [] value = "12345" -> 12345
      [] OTHER          -> NoInt

\* <<article, article_label>>; every article token of the model is all digits
_parse_article(article) ==
    IF article = Null \/ _parse_int(article) = NoInt THEN <<NoInt, Null>>
    ELSE <<_parse_int(article), Lower(article)>>

_normalize_point(value) == IF value = Null THEN Null ELSE Lower(value)

_normalize_act_type(act_type) ==
    IF act_type # Null /\ Lower(act_type) \in {"regulation", "directive", "decision"}
    THEN Lower(act_type) ELSE Null

_ordinal_to_int(value) ==
    CASE value = "first"  -> 1
      [] value = "second" -> 2
      [] value = "third"  -> 3
      [] value = "fourth" -> 4
      [] value = "fifth"  -> 5
      [] OTHER            -> NoInt

\* <<year, number>>, or <<>> for None
_parse_act_year_number(part1, part2) ==
    LET p1 == _parse_int(part1)
        p2 == _parse_int(part2)
    IN  IF 1900 < p1 /\ p1 <= 2100 THEN <<p1, p2>>
        ELSE IF 1900 < p2 /\ p2 <= 2100 THEN <<p2, p1>>
        ELSE IF p1 < 100 /\ p2 < 1000 THEN <<1900 + p1, p2>>
        ELSE IF p2 < 100 /\ p1 >= 100 THEN <<1900 + p2, p1>>
        ELSE IF p1 >= 1000 /\ p2 < 1000 THEN <<p1, p2>>
        ELSE <<>>

\* f"{n:04d}"
Pad4(n) ==
    IF n < 10 THEN "000" \o ToString(n)
    ELSE IF n < 100 THEN "00" \o ToString(n)
    ELSE IF n < 1000 THEN "0" \o ToString(n)
    ELSE ToString(n)

_to_celex(act_type, year, number) ==
    LET type_code == CASE act_type = "regulation" -> "R"
                       [] act_type = "directive"  -> "L"
                       [] act_type = "decision"   -> "D"
                       [] OTHER                   -> Null
    IN  IF type_code = Null THEN Null
        ELSE "3" \o Pad4(year) \o type_code \o Pad4(number)

RECURSIVE JoinDots(_)
JoinDots(parts) ==
    IF Len(parts) = 1 THEN parts[1] ELSE parts[1] \o "." \o JoinDots(Tail(parts))

_to_node_id(article_label, paragraph, point, subparagraph, annex, annex_part) ==
    LET parts ==
            (IF article_label # Null THEN <<"art-" \o article_label>> ELSE <<>>)
         \o (IF paragraph # NoInt THEN <<"par-" \o ToString(paragraph)>> ELSE <<>>)
         \o (IF subparagraph # Null /\ paragraph # NoInt /\ _ordinal_to_int(subparagraph) # NoInt
             THEN <<"subpar-" \o ToString(_ordinal_to_int(subparagraph))>> ELSE <<>>)
         \o (IF point # Null /\ point # "" THEN <<"pt-" \o point>> ELSE <<>>)
         \o (IF annex # Null /\ annex # "" THEN <<"annex-" \o annex>> ELSE <<>>)
         \o (IF annex_part # Null /\ annex_part # "" THEN <<"part-" \o annex_part>> ELSE <<>>)
    IN  IF parts = <<>> THEN Null ELSE JoinDots(parts)

\* a cascade without the consumed-span bookkeeping
NeverOverlapping(span_start, span_end, consumed_spans) == FALSE

_is_overlapping(span_start, span_end, consumed_spans) ==
    \E k \in 1..Len(consumed_spans) :
        span_start < consumed_spans[k][2] /\ span_end > consumed_spans[k][1]

\* re.Match: span, the token the match ends in, the matched text and groups
NoMatch == [s |-> NoInt]
Groups ==
    [article |-> Null, paragraph |-> Null, point |-> Null, point_inline |-> Null,
     act_kind |-> Null, act_part1 |-> Null, act_part2 |-> Null,
     article2 |-> Null, paragraph2 |-> Null, enum_body |-> <<>>,
     para_start |-> Null, para_end |-> Null, ordinal |-> Null]
Match(t, i, last, used, g) ==
    [s |-> TokStart(t, i), e |-> TokStart(t, last) + Len(used), last |-> last,
     raw |-> SubSeq(t, i, last - 1) \o <<used>>, g |-> g]

\* (?P<article>\d+[a-z]?)(?:\s?\((?P<paragraph>\d+)\))?, followed when
\* with_point by (?:\s?\((?P<point_inline>[a-z0-9]+)\))?, from token i on:
\* the token the piece ends in, what it takes of that token and whether it
\* takes all of it
ArtArg(t, i, with_point) ==
    LET Piece(n, head, nxt) ==
            CASE n.article = Null ->
                    [ok |-> FALSE, article |-> Null, paragraph |-> Null, point |-> Null,
                     last |-> i, used |-> "", whole |-> FALSE]
              [] n.article # Null /\ with_point /\ n.point # Null ->
                    [ok |-> TRUE, article |-> n.article, paragraph |-> n.paragraph,
                     point |-> n.point, last |-> i,
                     used |-> head \o "(" \o n.point \o ")",
                     whole |-> n.rest = ""]
              [] n.article # Null /\ with_point /\ n.point = Null /\ n.rest = "" /\ nxt # Null ->
                    [ok |-> TRUE, article |-> n.article, paragraph |-> n.paragraph,
                     point |-> nxt, last |-> i + 1, used |-> Tok(t, i + 1), whole |-> TRUE]
              [] OTHER ->
                    [ok |-> TRUE, article |-> n.article, paragraph |-> n.paragraph,
                     point |-> Null, last |-> i, used |-> head,
                     whole |-> n.point = Null /\ n.rest = ""]
        Parts(n) ==
            Piece(n,
                  IF n.paragraph = Null THEN n.article
                  ELSE n.article \o "(" \o n.paragraph \o ")",
                  ParenBody(Tok(t, i + 1)))
    IN  Parts(NumParts(Tok(t, i)))

\* a token that is \d+ and nothing else
PureNum(w) ==
    LET Pure(n) == n.article # Null /\ n.paragraph = Null /\ n.point = Null /\ n.rest = ""
    IN  Pure(NumParts(w))

\* _ACT_FRAGMENT from token i on
_ACT_FRAGMENT(t, i) ==
    LET Fragment(j, a) ==
            IF Tok(t, i) \in {"Regulation", "Directive", "Decision"} /\ a.act_part1 # Null
            THEN [ok |-> TRUE, act_kind |-> Tok(t, i), act_part1 |-> a.act_part1,
                  act_part2 |-> a.act_part2, last |-> j]
            ELSE [ok |-> FALSE, act_kind |-> Null, act_part1 |-> Null, act_part2 |-> Null,
                  last |-> i]
        From(j) == Fragment(j, ActParts(Tok(t, j)))
    IN  From(IF Tok(t, i + 1) \in {"(EU)", "(EC)", "(EEC)"} THEN i + 2 ELSE i + 1)

_EXTERNAL_WITH_ARTICLE_POINT_FIRST(t, i) ==
    LET OfAct(a, act) ==
            IF /\ Tok(t, i) = "point" /\ ParenBody(Tok(t, i + 1)) # Null
               /\ Tok(t, i + 2) = "of" /\ Tok(t, i + 3) = "Article"
               /\ a.ok /\ a.whole /\ Tok(t, a.last + 1) = "of" /\ act.ok
            THEN Match(t, i, act.last, t[act.last],
                       [Groups EXCEPT !.point = ParenBody(t[i + 1]), !.article = a.article,
                                      !.paragraph = a.paragraph, !.point_inline = a.point,
                                      !.act_kind = act.act_kind, !.act_part1 = act.act_part1,
                                      !.act_part2 = act.act_part2])
            ELSE NoMatch
        OfArticle(a) == OfAct(a, _ACT_FRAGMENT(t, a.last + 2))
    IN  OfArticle(ArtArg(t, i + 4, TRUE))

_EXTERNAL_WITH_ARTICLE_ARTICLE_FIRST(t, i) ==
    LET OfAct(a, act) ==
            IF /\ Tok(t, i) = "Article" /\ a.ok /\ a.whole
               /\ Tok(t, a.last + 1) = "of" /\ act.ok
            THEN Match(t, i, act.last, t[act.last],
                       [Groups EXCEPT !.article = a.article, !.paragraph = a.paragraph,
                                      !.point_inline = a.point,
                                      !.act_kind = act.act_kind, !.act_part1 = act.act_part1,
                                      !.act_part2 = act.act_part2])
            ELSE NoMatch
        OfArticle(a) == OfAct(a, _ACT_FRAGMENT(t, a.last + 2))
    IN  OfArticle(ArtArg(t, i + 1, TRUE))

_EXTERNAL_STANDALONE(t, i) ==
    LET Act(act) ==
            IF act.ok
            THEN Match(t, i, act.last, t[act.last],
                       [Groups EXCEPT !.act_kind = act.act_kind, !.act_part1 = act.act_part1,
                                      !.act_part2 = act.act_part2])
            ELSE NoMatch
    IN  Act(_ACT_FRAGMENT(t, i))

_INTERNAL_POINT_OF_ARTICLE(t, i) ==
    LET OfArticle(a) ==
            IF /\ Tok(t, i) = "point" /\ ParenBody(Tok(t, i + 1)) # Null
               /\ Tok(t, i + 2) = "of" /\ Tok(t, i + 3) = "Article" /\ a.ok
            THEN Match(t, i, a.last, a.used,
                       [Groups EXCEPT !.point = ParenBody(t[i + 1]), !.article = a.article,
                                      !.paragraph = a.paragraph])
            ELSE NoMatch
    IN  OfArticle(ArtArg(t, i + 4, FALSE))

_INTERNAL_ARTICLE_ENUMERATION(t, i) ==
    LET n == NumParts(Tok(t, i + 3)) IN
    IF /\ Tok(t, i) = "Articles" /\ PureNum(Tok(t, i + 1))
       /\ Tok(t, i + 2) \in {"and", "or"} /\ n.article # Null
    THEN Match(t, i, i + 3, n.article, [Groups EXCEPT !.enum_body = <<t[i + 1], n.article>>])
    ELSE NoMatch

_INTERNAL_ARTICLE_OR(t, i) ==
    LET Both(a1, a2) ==
            IF /\ Tok(t, i) = "Article" /\ a1.ok /\ a1.whole
               /\ Tok(t, a1.last + 1) = "or" /\ a2.ok
            THEN Match(t, i, a2.last, a2.used,
                       [Groups EXCEPT !.article = a1.article, !.paragraph = a1.paragraph,
                                      !.article2 = a2.article, !.paragraph2 = a2.paragraph])
            ELSE NoMatch
        First(a1) ==
            Both(a1, ArtArg(t, IF Tok(t, a1.last + 2) = "Article"
                               THEN a1.last + 3 ELSE a1.last + 2, FALSE))
    IN  First(ArtArg(t, i + 1, FALSE))

_INTERNAL_ARTICLE_SIMPLE(t, i) ==
    LET Simple(a) ==
            IF Tok(t, i) = "Article" /\ a.ok
            THEN Match(t, i, a.last, a.used,
                       [Groups EXCEPT !.article = a.article, !.paragraph = a.paragraph,
                                      !.point_inline = a.point])
            ELSE NoMatch
    IN  Simple(ArtArg(t, i + 1, TRUE))

_INTERNAL_POINT_ENUMERATION(t, i) ==
    IF /\ Tok(t, i) = "points" /\ ParenBody(Tok(t, i + 1)) # Null
       /\ Tok(t, i + 2) \in {"and", "or"} /\ ParenBody(Tok(t, i + 3)) # Null
    THEN Match(t, i, i + 3, t[i + 3],
               [Groups EXCEPT !.enum_body = <<ParenBody(t[i + 1]), ParenBody(t[i + 3])>>])
    ELSE NoMatch

_INTERNAL_PARAGRAPH_OF_THIS_ARTICLE(t, i) ==
    IF /\ Tok(t, i) = "paragraph" /\ PureNum(Tok(t, i + 1)) /\ Tok(t, i + 2) = "of"
       /\ Tok(t, i + 3) = "this" /\ Tok(t, i + 4) = "Article"
    THEN Match(t, i, i + 4, t[i + 4], [Groups EXCEPT !.paragraph = t[i + 1]])
    ELSE NoMatch

_INTERNAL_PARAGRAPH_RANGE(t, i) ==
    LET n == NumParts(Tok(t, i + 3)) IN
    IF /\ Tok(t, i) = "paragraph" /\ PureNum(Tok(t, i + 1))
       /\ Tok(t, i + 2) \in {"to", "and", "or"} /\ n.article # Null
    THEN Match(t, i, i + 3, n.article,
               [Groups EXCEPT !.para_start = t[i + 1], !.para_end = n.article])
    ELSE NoMatch

_INTERNAL_PARAGRAPH_SIMPLE(t, i) ==
    LET n == NumParts(Tok(t, i + 1)) IN
    IF Tok(t, i) = "paragraph" /\ n.article # Null
    THEN Match(t, i, i + 1, n.article, [Groups EXCEPT !.paragraph = n.article])
    ELSE NoMatch

_ORDINALS == {"first", "second", "third", "fourth", "fifth"}

_INTERNAL_SUBPARAGRAPH_OF_PARAGRAPH(t, i) ==
    LET OfParagraph(n) ==
            IF /\ Tok(t, i) = "the" /\ Tok(t, i + 1) \in _ORDINALS
               /\ Tok(t, i + 2) = "subparagraph" /\ Tok(t, i + 3) = "of"
               /\ Tok(t, i + 4) = "paragraph" /\ n.article # Null
            THEN IF /\ PureNum(Tok(t, i + 5)) /\ Tok(t, i + 6) = "of"
                    /\ Tok(t, i + 7) = "this" /\ Tok(t, i + 8) = "Article"
                 THEN Match(t, i, i + 8, t[i + 8],
                            [Groups EXCEPT !.ordinal = t[i + 1], !.paragraph = n.article])
                 ELSE Match(t, i, i + 5, n.article,
                            [Groups EXCEPT !.ordinal = t[i + 1], !.paragraph = n.article])
            ELSE NoMatch
    IN  OfParagraph(NumParts(Tok(t, i + 5)))

_INTERNAL_SUBPARAGRAPH_SIMPLE(t, i) ==
    IF Tok(t, i) = "the" /\ Tok(t, i + 1) \in _ORDINALS /\ Tok(t, i + 2) = "subparagraph"
    THEN Match(t, i, i + 2, t[i + 2], [Groups EXCEPT !.ordinal = t[i + 1]])
    ELSE NoMatch

_RELATIVE_REFERENCE(t, i) ==
    IF /\ Tok(t, i) \in {"this", "that"}
       /\ Tok(t, i + 1) \in {"Regulation", "Directive", "Decision", "Article", "paragraph"}
    THEN Match(t, i, i + 1, t[i + 1], Groups)
    ELSE IF Tok(t, i) = "thereof" THEN Match(t, i, i, t[i], Groups)
    ELSE NoMatch

\* a cascade that runs the generic internal patterns before the external ones
GenericFirst ==
    <<"_INTERNAL_ARTICLE_SIMPLE", "_INTERNAL_POINT_OF_ARTICLE",
      "_INTERNAL_ARTICLE_ENUMERATION", "_INTERNAL_ARTICLE_OR",
      "_INTERNAL_POINT_ENUMERATION", "_INTERNAL_PARAGRAPH_OF_THIS_ARTICLE",
      "_INTERNAL_PARAGRAPH_RANGE", "_INTERNAL_PARAGRAPH_SIMPLE",
      "_INTERNAL_SUBPARAGRAPH_OF_PARAGRAPH", "_INTERNAL_SUBPARAGRAPH_SIMPLE",
      "_RELATIVE_REFERENCE",
      "_EXTERNAL_WITH_ARTICLE_POINT_FIRST", "_EXTERNAL_WITH_ARTICLE_ARTICLE_FIRST",
      "_EXTERNAL_STANDALONE">>

\* the (pattern, builder) pairs of _extract_citations_from_text, in order
builders ==
    <<"_EXTERNAL_WITH_ARTICLE_POINT_FIRST", "_EXTERNAL_WITH_ARTICLE_ARTICLE_FIRST",
      "_EXTERNAL_STANDALONE", "_INTERNAL_SUBPARAGRAPH_OF_PARAGRAPH",
      "_INTERNAL_POINT_OF_ARTICLE",
      "_INTERNAL_ARTICLE_ENUMERATION", "_INTERNAL_ARTICLE_OR", "_INTERNAL_ARTICLE_SIMPLE",
      "_INTERNAL_POINT_ENUMERATION", "_INTERNAL_PARAGRAPH_OF_THIS_ARTICLE",
      "_INTERNAL_PARAGRAPH_RANGE", "_INTERNAL_PARAGRAPH_SIMPLE",
      "_INTERNAL_SUBPARAGRAPH_SIMPLE", "_RELATIVE_REFERENCE">>

MatchAt(pattern, t, i) ==
    CASE pattern = "_EXTERNAL_WITH_ARTICLE_POINT_FIRST" -> _EXTERNAL_WITH_ARTICLE_POINT_FIRST(t, i)
      [] pattern = "_EXTERNAL_WITH_ARTICLE_ARTICLE_FIRST" -> _EXTERNAL_WITH_ARTICLE_ARTICLE_FIRST(t, i)
      [] pattern = "_EXTERNAL_STANDALONE" -> _EXTERNAL_STANDALONE(t, i)
      [] pattern = "_INTERNAL_POINT_OF_ARTICLE" -> _INTERNAL_POINT_OF_ARTICLE(t, i)
      [] pattern = "_INTERNAL_ARTICLE_ENUMERATION" -> _INTERNAL_ARTICLE_ENUMERATION(t, i)
      [] pattern = "_INTERNAL_ARTICLE_OR" -> _INTERNAL_ARTICLE_OR(t, i)
      [] pattern = "_INTERNAL_ARTICLE_SIMPLE" -> _INTERNAL_ARTICLE_SIMPLE(t, i)
      [] pattern = "_INTERNAL_POINT_ENUMERATION" -> _INTERNAL_POINT_ENUMERATION(t, i)
      [] pattern = "_INTERNAL_PARAGRAPH_OF_THIS_ARTICLE" -> _INTERNAL_PARAGRAPH_OF_THIS_ARTICLE(t, i)
      [] pattern = "_INTERNAL_PARAGRAPH_RANGE" -> _INTERNAL_PARAGRAPH_RANGE(t, i)
      [] pattern = "_INTERNAL_PARAGRAPH_SIMPLE" -> _INTERNAL_PARAGRAPH_SIMPLE(t, i)
      [] pattern = "_INTERNAL_SUBPARAGRAPH_OF_PARAGRAPH" ->
            _INTERNAL_SUBPARAGRAPH_OF_PARAGRAPH(t, i)
      [] pattern = "_INTERNAL_SUBPARAGRAPH_SIMPLE" -> _INTERNAL_SUBPARAGRAPH_SIMPLE(t, i)
      [] OTHER -> _RELATIVE_REFERENCE(t, i)

\* pattern.finditer(text): leftmost matches that do not overlap
RECURSIVE finditer(_, _, _)
finditer(pattern, t, i) ==
    LET After(m) ==
            IF m.s = NoInt THEN finditer(pattern, t, i + 1)
            ELSE <<m>> \o finditer(pattern, t, m.last + 1)
    IN  IF i > Len(t) THEN <<>> ELSE After(MatchAt(pattern, t, i))

\* sorted(matches, key=(-(end - start), start))
RECURSIVE SortedMatches(_)
SortedMatches(ms) ==
    IF ms = <<>> THEN <<>>
    ELSE LET Before(a, b) == \/ a.e - a.s > b.e - b.s
                             \/ a.e - a.s = b.e - b.s /\ a.s < b.s
             k == CHOOSE k \in 1..Len(ms) : \A j \in 1..Len(ms) : j = k \/ Before(ms[k], ms[j])
         IN  <<ms[k]>> \o SortedMatches(SubSeq(ms, 1, k - 1) \o SubSeq(ms, k + 1, Len(ms)))

Citation(m, citation_type) ==
    [raw_text |-> m.raw, citation_type |-> citation_type,
     span_start |-> m.s, span_end |-> m.e,
     article |-> NoInt, article_label |-> Null, paragraph |-> NoInt, point |-> Null,
     paragraph_range |-> <<>>, subparagraph_ordinal |-> Null, subparagraph_index |-> NoInt,
     annex |-> Null, annex_part |-> Null, target_node_id |-> Null,
     act_year |-> NoInt, act_type |-> Null, act_number |-> Null, celex |-> Null]

\* the act fields shared by the two external builders
WithAct(c, g) ==
    LET act_type == _normalize_act_type(g.act_kind)
        parsed   == _parse_act_year_number(g.act_part1, g.act_part2)
    IN  [c EXCEPT !.act_type = act_type,
                  !.act_number = g.act_part1 \o "/" \o g.act_part2,
                  !.act_year = IF parsed # <<>> THEN parsed[1] ELSE NoInt,
                  !.celex = IF parsed # <<>> THEN _to_celex(act_type, parsed[1], parsed[2])
                            ELSE Null]

_build_external_with_article(m) ==
    LET g         == m.g
        art       == _parse_article(g.article)
        paragraph == _parse_int(g.paragraph)
        point     == _normalize_point(IF g.point # Null THEN g.point ELSE g.point_inline)
    IN  IF _normalize_act_type(g.act_kind) = Null THEN <<>>
        ELSE <<WithAct([Citation(m, "eu_legislation") EXCEPT
                            !.article = art[1], !.article_label = art[2],
                            !.paragraph = paragraph, !.point = point,
                            !.target_node_id =
                                _to_node_id(art[2], paragraph, point, Null, Null, Null)], g)>>

_build_external_standalone(m) ==
    IF _normalize_act_type(m.g.act_kind) = Null THEN <<>>
    ELSE <<WithAct(Citation(m, "eu_legislation"), m.g)>>

\* _build_internal_article_point and _build_internal_article_simple
_build_internal_article_simple(m, point) ==
    LET art       == _parse_article(m.g.article)
        paragraph == _parse_int(m.g.paragraph)
    IN  <<[Citation(m, "internal") EXCEPT
                !.article = art[1], !.article_label = art[2],
                !.paragraph = paragraph, !.point = _normalize_point(point),
                !.target_node_id =
                    _to_node_id(art[2], paragraph, _normalize_point(point), Null, Null, Null)]>>

\* one citation of an enumeration: every one carries the span of the match
ArticleCitation(m, article_token, paragraph_token) ==
    LET art       == _parse_article(article_token)
        paragraph == _parse_int(paragraph_token)
    IN  IF art[2] = Null THEN <<>>
        ELSE <<[Citation(m, "internal") EXCEPT
                    !.article = art[1], !.article_label = art[2], !.paragraph = paragraph,
                    !.target_node_id = _to_node_id(art[2], paragraph, Null, Null, Null, Null)]>>

_build_internal_article_enumeration(m) ==
    Flatten([k \in 1..Len(m.g.enum_body) |-> ArticleCitation(m, m.g.enum_body[k], Null)])

_build_internal_article_or(m) ==
    ArticleCitation(m, m.g.article, m.g.paragraph)
        \o ArticleCitation(m, m.g.article2, m.g.paragraph2)

_build_internal_point_enumeration(m) ==
    [k \in 1..Len(m.g.enum_body) |->
        [Citation(m, "internal") EXCEPT
            !.point = _normalize_point(m.g.enum_body[k]),
            !.target_node_id =
                _to_node_id(Null, NoInt, _normalize_point(m.g.enum_body[k]), Null, Null, Null)]]

\* _build_internal_paragraph_of_this_article and _build_internal_paragraph_simple
_build_internal_paragraph_simple(m) ==
    LET paragraph == _parse_int(m.g.paragraph) IN
    <<[Citation(m, "internal") EXCEPT
            !.paragraph = paragraph,
            !.target_node_id = _to_node_id(Null, paragraph, Null, Null, Null, Null)]>>

_build_internal_paragraph_range(m) ==
    LET para_start == _parse_int(m.g.para_start)
        para_end   == _parse_int(m.g.para_end)
    IN  <<[Citation(m, "internal") EXCEPT
                !.paragraph_range = IF para_start # NoInt /\ para_end # NoInt
                                    THEN <<para_start, para_end>> ELSE <<>>]>>

\* _build_internal_subparagraph_of_paragraph and _build_internal_subparagraph
\* on a match without an article group
_build_internal_subparagraph(m) ==
    LET paragraph == _parse_int(m.g.paragraph) IN
    <<[Citation(m, "internal") EXCEPT
            !.paragraph = paragraph,
            !.subparagraph_ordinal = m.g.ordinal,
            !.target_node_id = _to_node_id(Null, paragraph, Null, m.g.ordinal, Null, Null)]>>

_build_relative_reference(m) == <<Citation(m, "internal")>>

\* the builder paired with the pattern: the citations it returns (none for None)
Build(pattern, m) ==
    CASE pattern \in {"_EXTERNAL_WITH_ARTICLE_POINT_FIRST",
                      "_EXTERNAL_WITH_ARTICLE_ARTICLE_FIRST"} -> _build_external_with_article(m)
      [] pattern = "_EXTERNAL_STANDALONE" -> _build_external_standalone(m)
      [] pattern = "_INTERNAL_POINT_OF_ARTICLE" -> _build_internal_article_simple(m, m.g.point)
      [] pattern = "_INTERNAL_ARTICLE_ENUMERATION" -> _build_internal_article_enumeration(m)
      [] pattern = "_INTERNAL_ARTICLE_OR" -> _build_internal_article_or(m)
      [] pattern = "_INTERNAL_ARTICLE_SIMPLE" -> _build_internal_article_simple(m, m.g.point_inline)
      [] pattern = "_INTERNAL_POINT_ENUMERATION" -> _build_internal_point_enumeration(m)
      [] pattern \in {"_INTERNAL_PARAGRAPH_OF_THIS_ARTICLE",
                      "_INTERNAL_PARAGRAPH_SIMPLE"} -> _build_internal_paragraph_simple(m)
      [] pattern = "_INTERNAL_PARAGRAPH_RANGE" -> _build_internal_paragraph_range(m)
      [] pattern \in {"_INTERNAL_SUBPARAGRAPH_OF_PARAGRAPH",
                      "_INTERNAL_SUBPARAGRAPH_SIMPLE"} -> _build_internal_subparagraph(m)
      [] OTHER -> _build_relative_reference(m)

\* the loop of _collect_matches over the sorted matches; acc holds
\* consumed_spans and the citations built so far
RECURSIVE CollectLoop(_, _, _, _)
CollectLoop(pattern, ms, k, acc) ==
    LET Built(m, citations) ==
            IF _is_overlapping(m.s, m.e, acc.consumed_spans) \/ citations = <<>>
            THEN CollectLoop(pattern, ms, k + 1, acc)
            ELSE CollectLoop(pattern, ms, k + 1,
                             [consumed_spans |-> Append(acc.consumed_spans, <<m.s, m.e>>),
                              citations |-> acc.citations \o citations])
    IN  IF k > Len(ms) THEN acc ELSE Built(ms[k], Build(pattern, ms[k]))

_collect_matches(text, pattern, acc) ==
    CollectLoop(pattern, SortedMatches(finditer(pattern, text, 1)), 1, acc)

RECURSIVE Cascade(_, _, _)
Cascade(text, k, acc) ==
    IF k > Len(builders) THEN acc
    ELSE Cascade(text, k + 1, _collect_matches(text, builders[k], acc))

\* list.sort(key=span_start): stable
RECURSIVE SortBySpanStart(_)
SortBySpanStart(cs) ==
    IF cs = <<>> THEN <<>>
    ELSE LET k == CHOOSE k \in 1..Len(cs) :
                    /\ \A j \in 1..Len(cs) : cs[k].span_start <= cs[j].span_start
                    /\ \A j \in 1..(k - 1) : cs[j].span_start > cs[k].span_start
         IN  <<cs[k]>> \o SortBySpanStart(SubSeq(cs, 1, k - 1) \o SubSeq(cs, k + 1, Len(cs)))

\* connective_phrase is not modelled
_extract_citations_from_text(text) ==
    SortBySpanStart(Cascade(text, 1, [consumed_spans |-> <<>>, citations |-> <<>>]).citations)

_extract_citations(us) ==
    [i \in 1..Len(us) |->
        [us[i] EXCEPT !.citations = IF us[i].is_amendment_text \/ us[i].text = <<>>
                                    THEN <<>>
                                    ELSE _extract_citations_from_text(us[i].text)]]

(***************************************************************************)
(* Citation resolution                                                     *)
(***************************************************************************)
LowerWords(ws) == [k \in 1..Len(ws) |-> Lower(ws[k])]

\* tokens that hold one of the characters of _CLAUSE_BREAK
BreakWords == {"text:", "follows:", "applies:", "1.", "2."}

\* _CLAUSE_BREAK.search(text[from:to]); the remainder of a token a span ends
\* in holds no break character
ClauseBreak(text, from, to) ==
    \E k \in 1..Len(text) :
        /\ TokStart(text, k) >= from
        /\ TokStart(text, k) + Len(text[k]) <= to
        /\ text[k] \in BreakWords

_INDEX_TO_ORDINAL(index) ==
    CASE index = 1 -> "first"
      [] index = 2 -> "second"
      [] index = 3 -> "third"
      [] index = 4 -> "fourth"
      [] index = 5 -> "fifth"
      [] OTHER     -> Null

\* a synchronisation that also moves the citation to the start of the text
SyncAndRespan(c) == [c EXCEPT !.span_end = @ - c.span_start, !.span_start = 0]

_sync_subparagraph_index(c) ==
    [c EXCEPT !.subparagraph_index =
        IF c.subparagraph_ordinal = Null THEN NoInt
        ELSE _ordinal_to_int(c.subparagraph_ordinal)]

\* an antecedent search that takes the nearest preceding act of the type,
\* however many acts precede
NearestPrecedingAct(cits, k, act_type) ==
    LET prior == {j \in 1..(k - 1) :
                    /\ cits[j].span_end <= cits[k].span_start
                    /\ cits[j].citation_type = "eu_legislation"
                    /\ cits[j].act_type = act_type
                    /\ cits[j].act_number # Null /\ cits[j].act_number # ""}
    IN  IF prior = {} THEN 0 ELSE CHOOSE j \in prior : \A h \in prior : h <= j

\* the index in cits of the antecedent, 0 for None
_find_unique_preceding_eu_legislation_act(cits, k, act_type) ==
    LET prior == {j \in 1..(k - 1) :
                    /\ cits[j].span_end <= cits[k].span_start
                    /\ cits[j].citation_type = "eu_legislation"
                    /\ cits[j].act_type = act_type
                    /\ cits[j].act_number # Null /\ cits[j].act_number # ""}
        unique_acts == {cits[j].act_number : j \in prior}
    IN  IF Cardinality(unique_acts) # 1 THEN 0
        ELSE CHOOSE j \in prior : \A h \in prior : h <= j

_reclassify_bare_relative_act_reference(c, cits, k, raw_text) ==
    LET target_act_type ==
            CASE raw_text = <<"that", "directive">>  -> "directive"
              [] raw_text = <<"that", "regulation">> -> "regulation"
              [] raw_text = <<"that", "decision">>   -> "decision"
              [] OTHER                               -> Null
        a == IF target_act_type = Null THEN 0
             ELSE _find_unique_preceding_eu_legislation_act(cits, k, target_act_type)
    IN  IF a = 0 THEN c
        ELSE [c EXCEPT !.citation_type = "eu_legislation",
                       !.act_type = cits[a].act_type, !.act_number = cits[a].act_number,
                       !.act_year = cits[a].act_year, !.celex = cits[a].celex,
                       !.target_node_id = Null]

\* _POINT_ENUMERATION_RAW.fullmatch(raw_text)
_POINT_ENUMERATION_RAW(raw_text) ==
    /\ Len(raw_text) = 4
    /\ raw_text[1] = "points" /\ ParenBody(raw_text[2]) # Null
    /\ raw_text[3] \in {"and", "or"} /\ ParenBody(raw_text[4]) # Null

_is_standalone_point_enumeration(c) ==
    c.citation_type = "internal" /\ c.point # Null /\ _POINT_ENUMERATION_RAW(c.raw_text)

\* an anchor search that looks across clause breaks
AnchorAcrossBreaks(unit, cits, k) ==
    LET ok == {j \in 1..(k - 1) :
                    /\ cits[j].span_end <= cits[k].span_start
                    /\ cits[j].citation_type = "internal"
                    /\ cits[j].article_label # Null}
    IN  IF unit.text = <<>> \/ ok = {} THEN 0 ELSE CHOOSE j \in ok : \A h \in ok : h <= j

\* the index in cits of the anchor, 0 for None
_find_preceding_internal_anchor(unit, cits, k) ==
    LET ok == {j \in 1..(k - 1) :
                    /\ cits[j].span_end <= cits[k].span_start
                    /\ cits[j].citation_type = "internal"
                    /\ cits[j].article_label # Null
                    /\ ~ClauseBreak(unit.text, cits[j].span_end, cits[k].span_start)}
    IN  IF unit.text = <<>> \/ ok = {} THEN 0 ELSE CHOOSE j \in ok : \A h \in ok : h <= j

_apply_anchor_context(c, anchor) ==
    [c EXCEPT !.article = anchor.article, !.article_label = anchor.article_label,
              !.paragraph = anchor.paragraph,
              !.subparagraph_ordinal = anchor.subparagraph_ordinal]

\* self._unit_map.get(id): the unit the index holds for the id
UnitOf(us, id) == us[CHOOSE i \in 1..Len(us) : us[i].id = id /\ \A j \in (i + 1)..Len(us) : us[j].id # id]

RECURSIVE _resolve_parent_subparagraph_ordinal(_, _)
_resolve_parent_subparagraph_ordinal(us, parent_id) ==
    IF parent_id = Null \/ parent_id \notin IdsOf(us) THEN Null
    ELSE LET parent == UnitOf(us, parent_id) IN
         IF parent.type = "subparagraph"
         THEN IF parent.subparagraph_index = NoInt THEN Null
              ELSE _INDEX_TO_ORDINAL(parent.subparagraph_index)
         ELSE _resolve_parent_subparagraph_ordinal(us, parent.parent_id)

\* a resolver that addresses the n-th subparagraph as subpar-n
UnshiftedSubparagraph(article_label, paragraph, subparagraph, point) ==
    _to_node_id(article_label, paragraph, point, subparagraph, Null, Null)

_to_context_shifted_subparagraph_node_id(article_label, paragraph, subparagraph, point) ==
    LET ordinal == _ordinal_to_int(subparagraph) IN
    IF ordinal = NoInt
    THEN _to_node_id(article_label, paragraph, point, subparagraph, Null, Null)
    ELSE JoinDots(<<"art-" \o article_label, "par-" \o ToString(paragraph)>>
                  \o (IF ordinal > 1 THEN <<"subpar-" \o ToString(ordinal - 1)>> ELSE <<>>)
                  \o (IF point # Null /\ point # "" THEN <<"pt-" \o point>> ELSE <<>>))

\* add_candidate over the targets in the order the code offers them
RECURSIVE Candidates(_, _)
Candidates(targets, acc) ==
    IF targets = <<>> THEN acc
    ELSE Candidates(Tail(targets),
                    IF Head(targets) # Null /\ Head(targets) # ""
                       /\ \A k \in 1..Len(acc) : acc[k] # Head(targets)
                    THEN Append(acc, Head(targets)) ELSE acc)

\* a resolver that accepts its first candidate unseen
AnyTarget(ids, target_node_id) == target_node_id # Null

_target_exists(ids, target_node_id) == target_node_id # Null /\ target_node_id \in ids

\* has_map: _build_parent_index has run; without it the first look at
\* self._unit_map raises AttributeError
_resolve_target_node_id(c, prefer_context_shifted_subparagraph, ids, has_map) ==
    LET shiftable == /\ c.subparagraph_ordinal # Null /\ c.subparagraph_ordinal # ""
                     /\ c.article_label # Null /\ c.paragraph # NoInt
        plain == _to_node_id(c.article_label, c.paragraph, c.point,
                             c.subparagraph_ordinal, c.annex, c.annex_part)
        First(shifted_target) ==
            IF prefer_context_shifted_subparagraph /\ shifted_target # Null
            THEN <<shifted_target, plain>> ELSE <<plain, shifted_target>>
        no_point ==
            IF c.point = Null THEN <<>>
            ELSE <<_to_node_id(c.article_label, c.paragraph, Null,
                               c.subparagraph_ordinal, c.annex, c.annex_part)>>
                 \o (IF shiftable
                     THEN <<_to_context_shifted_subparagraph_node_id(
                                c.article_label, c.paragraph, c.subparagraph_ordinal, Null)>>
                     ELSE <<>>)
        annex_only ==
            IF c.annex # Null /\ c.annex_part # Null
            THEN <<_to_node_id(Null, NoInt, Null, Null, c.annex, Null)>> ELSE <<>>
        Pick(candidates, found) ==
            IF found = {} THEN [c |-> [c EXCEPT !.target_node_id = Null], exc |-> Null]
            ELSE [c |-> [c EXCEPT !.target_node_id =
                            candidates[CHOOSE k \in found : \A h \in found : k <= h]],
                  exc |-> Null]
        Lookup(candidates) ==
            IF candidates # <<>> /\ ~has_map THEN [c |-> c, exc |-> "AttributeError"]
            ELSE Pick(candidates,
                      {k \in 1..Len(candidates) : _target_exists(ids, candidates[k])})
    IN  Lookup(Candidates(
            First(IF shiftable
                  THEN _to_context_shifted_subparagraph_node_id(
                           c.article_label, c.paragraph, c.subparagraph_ordinal, c.point)
                  ELSE Null)
            \o no_point \o annex_only, <<>>))

\* cits: the unit's citations, those before index k already resolved
_resolve_relative_citation(us, has_map, unit, cits, k) ==
    LET \* the target once the context of a standalone point enumeration is set
        Finish(c4, had_missing_article, standalone, anchor, parent_subparagraph) ==
            _resolve_target_node_id(
                _sync_subparagraph_index(
                    IF standalone /\ anchor # 0 THEN _apply_anchor_context(c4, cits[anchor])
                    ELSE IF parent_subparagraph # Null
                    THEN [c4 EXCEPT !.subparagraph_ordinal = parent_subparagraph,
                                    !.subparagraph_index = _ordinal_to_int(parent_subparagraph)]
                    ELSE c4),
                had_missing_article /\ parent_subparagraph = Null,
                IdsOf(us), has_map)
        FromParent(c4, had_missing_article, standalone, anchor) ==
            IF standalone /\ anchor = 0 /\ ~has_map /\ unit.parent_id # Null
            THEN [c |-> c4, exc |-> "AttributeError"]
            ELSE Finish(c4, had_missing_article, standalone, anchor,
                        IF standalone /\ anchor = 0 /\ has_map
                        THEN _resolve_parent_subparagraph_ordinal(us, unit.parent_id)
                        ELSE Null)
        Anchored(c4, had_missing_article, standalone) ==
            FromParent(c4, had_missing_article, standalone,
                       IF standalone THEN _find_preceding_internal_anchor(unit, cits, k)
                       ELSE 0)
        WithAnnex(c4, had_missing_article) ==
            Anchored(c4, had_missing_article, _is_standalone_point_enumeration(c4))
        WithParagraph(c3, had_missing_article) ==
            WithAnnex(IF c3.annex = Null /\ c3.annex_part # Null /\ unit.annex_number # Null
                      THEN [c3 EXCEPT !.annex = unit.annex_number] ELSE c3,
                      had_missing_article)
        WithArticle(c2, raw_text, context_paragraph, had_missing_article) ==
            WithParagraph(
                IF /\ c2.paragraph = NoInt
                   /\ \/ c2.point # Null \/ c2.subparagraph_ordinal # Null
                      \/ raw_text = <<"this", "paragraph">>
                   /\ context_paragraph # NoInt
                THEN [c2 EXCEPT !.paragraph = context_paragraph] ELSE c2,
                had_missing_article)
        Internal(c1, raw_text, this, context, paragraph_number) ==
            IF c1.citation_type # "internal" THEN [c |-> c1, exc |-> Null]
            ELSE WithArticle(
                    IF /\ \/ /\ c1.article_label = Null
                             /\ \/ c1.paragraph # NoInt \/ c1.point # Null
                                \/ c1.subparagraph_ordinal # Null \/ this
                          \/ this
                       /\ context[2] # Null
                    THEN [c1 EXCEPT !.article = context[1], !.article_label = context[2]]
                    ELSE c1,
                    raw_text,
                    IF paragraph_number # NoInt THEN paragraph_number
                    ELSE unit.paragraph_index,
                    c1.article_label = Null)
        Synced(c0, raw_text) ==
            IF c0.citation_type # "internal" THEN [c |-> c0, exc |-> Null]
            ELSE Internal(_reclassify_bare_relative_act_reference(c0, cits, k, raw_text),
                          raw_text,
                          raw_text \in {<<"this", "article">>, <<"this", "paragraph">>},
                          _parse_article(unit.article_number),
                          _parse_int(unit.paragraph_number))
    IN  Synced(_sync_subparagraph_index(cits[k]), LowerWords(cits[k].raw_text))

\* the two loops of _resolve_citations; st is <<units, exception>>
RECURSIVE ResolveLoop(_, _, _, _)
ResolveLoop(st, has_map, i, k) ==
    LET Store(r) ==
            ResolveLoop([units |-> [st.units EXCEPT ![i].citations[k] = r.c],
                         exc |-> r.exc],
                        has_map, i, k + 1)
    IN  CASE st.exc # Null \/ i > Len(st.units) -> st
          [] st.exc = Null /\ i <= Len(st.units) /\ k > Len(st.units[i].citations) ->
                ResolveLoop(st, has_map, i + 1, 1)
          [] OTHER -> Store(_resolve_relative_citation(
                                st.units, has_map, st.units[i], st.units[i].citations, k))

_resolve_citations(us, has_map) == ResolveLoop([units |-> us, exc |-> Null], has_map, 1, 1)

(***************************************************************************)
(* Consolidated walker                                                     *)
(***************************************************************************)
\* <div class="norm"> with its <span class="no-parag"> (Null: no span); kids
\* are the nodes after the span, inside <div class="inline-element"> when
\* inline
NormDiv(no_parag, inline, kids) ==
    [k |-> "div", id |-> "", cls |-> "norm", no_parag |-> no_parag, inline |-> inline,
     kids |-> kids]

\* <div class="grid-container">: the label of grid-list-column-1 and the
\* children of grid-list-column-2
Grid(label, kids) == [k |-> "grid", cls |-> "grid-container", label |-> label, kids |-> kids]

\* get_text(separator=" ", strip=True) of consolidated content, grids included
RECURSIVE FullText(_)
FullText(kids) ==
    Flatten([i \in 1..Len(kids) |->
        IF kids[i].k = "grid" THEN <<kids[i].label>> \o FullText(kids[i].kids)
        ELSE kids[i].text])

_get_consolidated_text(kids) ==
    LET texts == SelectSeq(kids, LAMBDA n : n.k = "p" /\ n.cls = "norm" /\ n.text # <<>>) IN
    IF texts # <<>> THEN Flatten([i \in 1..Len(texts) |-> texts[i].text])
    ELSE FullText(SelectSeq(kids, LAMBDA n : n.k # "grid"))

\* "if depth > 10: return"
GridDepthLimit == 10

RECURSIVE _parse_single_grid_point(_, _, _, _, _, _)
RECURSIVE NestedGrids(_, _, _, _, _, _)
_parse_single_grid_point(st, grid, parent_id, article_num, paragraph_num, depth) ==
    IF depth > GridDepthLimit THEN st
    ELSE LET WithLabel(nl) ==
                 NestedGrids(
                     _add_unit(st,
                         [Unit(parent_id \o "." \o PrefixAtDepth(depth) \o "-" \o nl[1],
                               TypeAtDepth(depth), grid.label,
                               normalize_text(_get_consolidated_text(grid.kids)), parent_id,
                               article_num, paragraph_num)
                          EXCEPT !.point_label = IF depth = 0 THEN nl[1] ELSE Null,
                                 !.subpoint_label = IF depth = 1 THEN nl[1] ELSE Null,
                                 !.subsubpoint_label = IF depth = 2 THEN nl[1] ELSE Null,
                                 !.is_amendment_text = nl[3]]),
                     KidsOf(grid.kids, "grid"),
                     parent_id \o "." \o PrefixAtDepth(depth) \o "-" \o nl[1],
                     article_num, paragraph_num, depth + 1)
         IN  WithLabel(normalize_label(grid.label))

\* "for nested in nested_grids:" and "for grid in grid_lists:"
NestedGrids(st, grids, parent_id, article_num, paragraph_num, depth) ==
    IF grids = <<>> THEN st
    ELSE NestedGrids(
             _parse_single_grid_point(st, Head(grids), parent_id, article_num, paragraph_num,
                                      depth),
             Tail(grids), parent_id, article_num, paragraph_num, depth)

_parse_consolidated_points(st, parent, parent_id, article_num, paragraph_num) ==
    NestedGrids(st, KidsOf(parent.kids, "grid"), parent_id, article_num, paragraph_num, 0)

\* digits of the no-parag label: re.sub(r"[^\d]", "", label.rstrip("."))
ParNum(no_parag) ==
    IF LabelParts(no_parag).body \in DigitBodies THEN LabelParts(no_parag).body ELSE ""

NumberedNorm(st, child, parent_id, article_num, par_num) ==
    _parse_consolidated_points(
        _add_unit(st,
            Unit(IF par_num # "" THEN parent_id \o ".par-" \o par_num ELSE parent_id,
                 "paragraph",
                 IF par_num # "" THEN par_num \o "." ELSE Null,
                 normalize_text(IF child.inline THEN _get_consolidated_text(child.kids)
                                ELSE FullText(child.kids)),
                 parent_id, article_num, par_num)),
        child,
        IF par_num # "" THEN parent_id \o ".par-" \o par_num ELSE parent_id,
        article_num, par_num)

IntroUnit(st, child, parent_id, article_num, intro_idx) ==
    _add_unit(st,
        Unit(parent_id \o ".intro-" \o ToString(intro_idx), "intro", Null,
             normalize_text(child.text), parent_id, article_num, Null))

\* "for child in parent_div.children:" from child i on
RECURSIVE _parse_consolidated_content(_, _, _, _, _, _)
_parse_consolidated_content(st, kids, i, intro_idx, parent_id, article_num) ==
    IF i > Len(kids) THEN st
    ELSE IF kids[i].k = "div" /\ kids[i].cls = "norm" /\ kids[i].no_parag # Null
    THEN _parse_consolidated_content(
             NumberedNorm(st, kids[i], parent_id, article_num, ParNum(kids[i].no_parag)),
             kids, i + 1, intro_idx, parent_id, article_num)
    ELSE IF kids[i].k = "grid"
    THEN _parse_consolidated_content(
             _parse_single_grid_point(st, kids[i], parent_id, article_num, Null, 0),
             kids, i + 1, intro_idx, parent_id, article_num)
    ELSE IF kids[i].k = "p" /\ kids[i].cls = "norm" /\ kids[i].text # <<>>
    THEN _parse_consolidated_content(
             IntroUnit(st, kids[i], parent_id, article_num, intro_idx + 1),
             kids, i + 1, intro_idx + 1, parent_id, article_num)
    ELSE _parse_consolidated_content(st, kids, i + 1, intro_idx, parent_id, article_num)

RECURSIVE _parse_articles_consolidated(_, _)
_parse_articles_consolidated(st, article_divs) ==
    IF article_divs = <<>> THEN st
    ELSE _parse_articles_consolidated(
             _parse_consolidated_content(
                 _add_unit(st,
                     [Unit("art-" \o Head(article_divs).num, "article",
                           "Article " \o Head(article_divs).num, <<>>, Null,
                           Head(article_divs).num, Null)
                      EXCEPT !.heading = Head(article_divs).subtitle]),
                 Head(article_divs).kids, 1, 0, "art-" \o Head(article_divs).num,
                 Head(article_divs).num),
             Tail(article_divs))

\* a grid-container anywhere under a node list
RECURSIVE HasGrid(_)
HasGrid(kids) ==
    \E i \in 1..Len(kids) :
        \/ kids[i].k = "grid"
        \/ kids[i].k = "div" /\ HasGrid(kids[i].kids)

\* is_consolidated: a <p class="title-article-norm"> or a grid-container
_detect_format(doc) ==
    \E a \in 1..Len(doc.articles) :
        \/ doc.articles[a].title_cls = "title-article-norm"
        \/ HasGrid(doc.articles[a].kids)

(***************************************************************************)
(* parse()                                                                 *)
(***************************************************************************)
\* the builder pass of parse() on an instance holding units us and ids
BuilderPass(us, ids, doc) ==
    IF _detect_format(doc)
    THEN _parse_articles_consolidated(
             _parse_recitals(
                 _parse_document_title(BuilderState(us, ids), doc.title),
                 doc.recitals),
             doc.articles)
    ELSE _parse_articles(
             _parse_recitals(
                 _parse_document_title(BuilderState(us, ids), doc.title),
                 doc.recitals),
             doc.articles)

MaxCalls == 2

Parse ==
    LET Finish(st) ==
            /\ unit_ids' = st.ids
            /\ calls' = calls + 1
            /\ IF st.exc # Null
               THEN /\ units' = st.units
                    /\ validation' = [validation EXCEPT
                                         !.counts_expected = _count_expected_elements(html)]
                    /\ outcome' = "raised"
                    /\ UNCHANGED <<returned, indexed, document_metadata>>
               ELSE /\ units' = _enrich(st.units)
                    /\ validation' = _validate(
                                         [validation EXCEPT
                                             !.counts_expected = _count_expected_elements(html),
                                             !.counts_parsed = _count_parsed_elements(st.units)],
                                         st.units)
                    /\ outcome' = "returned"
                    /\ returned' = units'
                    /\ indexed' = TRUE
                    /\ document_metadata' = _compute_document_metadata(units')
    IN  /\ calls < MaxCalls
        /\ Finish(BuilderPass(units, unit_ids, html))
        /\ UNCHANGED <<html, stages, others>>

\* EUParser(source_file): a new instance for the same input
Construct ==
    /\ calls > 0
    /\ units' = <<>>
    /\ unit_ids' = {}
    /\ validation' = NewValidation
    /\ calls' = 0
    /\ outcome' = "none"
    /\ returned' = <<>>
    /\ indexed' = FALSE
    /\ document_metadata' = NoMetadata
    /\ UNCHANGED <<html, stages, others>>

(***************************************************************************)
(* Input documents                                                         *)
(***************************************************************************)
TNum     == <<"1.", "Intro", "text:">>
TIntro   == <<"Intro", "text:">>
TPlain   == <<"Second", "paragraph">>
TBare    == <<"Unwrapped", "words">>
TWrapped == <<"Wrapped", "words">>
TPoint   == <<"Point", "text">>
TFirst   == <<"First", "item", "text">>
TExtra   == <<"Extra", "paragraph">>
TSub     == <<"Nested", "point">>
TData    == <<"Data", "cell", "text">>
TMore    == <<"More", "cell", "text">>
TDeep    == <<"Deepest", "text">>
TLevel   == <<"Level", "text">>
TTitle   == <<"Regulation", "on", "things">>
TRecital == <<"Whereas", "things", "matter">>
TCite    == <<"Applies", "under", "Article", "5">>

ListRow(label, kids) == <<Td(<<P("oj-normal", <<label>>)>>), Td(kids)>>
ListTable(rows) == Table(<<NoInt, NoInt>>, rows)

\* <table><tr><td>(a)</td><td>Point text</td></tr></table>
TblScenario == Table(<<>>, <<<<Td(<<Str(<<"(a)">>)>>), Td(<<Str(TPoint)>>)>>>>)
TblOneP == ListTable(<<ListRow("(a)", <<P("oj-normal", TFirst)>>)>>)
TblTwice ==
    ListTable(<<ListRow("(b)", <<P("oj-normal", TFirst)>>),
                ListRow("(b)", <<P("oj-normal", TExtra),
                                 ListTable(<<ListRow("(i)", <<P("oj-normal", TSub)>>)>>)>>)>>)
TblExtraThenNested ==
    ListTable(<<ListRow("(c)", <<P("oj-normal", TFirst), P("oj-normal", TExtra),
                                 ListTable(<<ListRow("(i)", <<P("oj-normal", TSub)>>)>>)>>)>>)
TblNestedThenExtra ==
    ListTable(<<ListRow("(c)", <<P("oj-normal", TFirst),
                                 ListTable(<<ListRow("(i)", <<P("oj-normal", TSub)>>)>>),
                                 P("oj-normal", TExtra)>>)>>)
TblWithDiv ==
    ListTable(<<ListRow("(a)", <<P("oj-normal", TFirst), P("oj-normal", TExtra),
                                 Div("", <<P("oj-normal", TWrapped)>>)>>)>>)
TblMissingCell ==
    ListTable(<<<<Td(<<P("oj-normal", <<"(a)">>)>>)>>,
                ListRow("(b)", <<P("oj-normal", TPoint)>>)>>)
TblData ==
    Table(<<>>, <<<<Td(<<P("oj-normal", TData)>>), Td(<<P("oj-normal", TMore)>>),
                    Td(<<Str(TBare)>>)>>>>)

\* list-tables nested n deep around one innermost row
RECURSIVE DeepTable(_)
DeepTable(n) ==
    IF n = 0 THEN ListTable(<<ListRow("(a)", <<P("oj-normal", TDeep)>>)>>)
    ELSE ListTable(<<ListRow("(a)", <<P("oj-normal", TLevel), DeepTable(n - 1)>>)>>)

TblDeep == DeepTable(max_depth)

NodePool ==
    {P("oj-normal", TNum), P("oj-normal", TPlain), P("oj-normal", TCite), Str(TBare),
     Div("", <<P("oj-normal", TWrapped)>>),
     TblScenario, TblOneP, TblTwice, TblExtraThenNested, TblNestedThenExtra,
     TblWithDiv, TblMissingCell, TblData, TblDeep}

MaxKids == 2

RECURSIVE SeqsUpTo(_, _)
SeqsUpTo(S, n) ==
    IF n = 0 THEN {<<>>}
    ELSE LET shorter == SeqsUpTo(S, n - 1) IN
         shorter \cup {Append(q, x) : q \in shorter, x \in S}

Article(num, subtitle, kids) ==
    [num |-> num, subtitle |-> subtitle, title_cls |-> "oj-ti-art", kids |-> kids]
Doc(title, recitals, articles) ==
    [title |-> title, recitals |-> recitals, articles |-> articles]

Layouts == {"container", "numbered", "direct", "two containers", "preamble"}

\* a document of one article whose body is the node list kids
MakeDoc(layout, kids) ==
    CASE layout = "container" ->
            Doc(<<>>, <<>>, <<Article("1", Null, <<Div("001.001", kids)>>)>>)
      [] layout = "numbered" ->
            Doc(<<>>, <<>>,
                <<Article("1", Null, <<Div("001.001", <<P("oj-normal", TNum)>> \o kids)>>)>>)
      [] layout = "direct" ->
            Doc(<<>>, <<>>, <<Article("1", "Scope", kids)>>)
      [] layout = "two containers" ->
            Doc(<<>>, <<>>,
                <<Article("1", Null, <<Div("001.001", kids), Div("001.002", kids)>>)>>)
      [] OTHER ->
            Doc(<<P("oj-doc-ti", TTitle), P("oj-doc-ti", EEARelevance)>>,
                <<[num |-> "1", kids |-> <<P("oj-normal", <<"(1)">> \o TRecital)>>],
                  [num |-> "3", kids |-> <<ListTable(<<
                        <<Td(<<P("oj-normal", <<"(3)">>)>>),
                          Td(<<P("oj-normal", TRecital)>>)>>>>)>>]>>,
                <<Article("1", "Definitions", <<Div("001.001", kids)>>)>>)

Docs == {MakeDoc(l, kids) : l \in Layouts, kids \in SeqsUpTo(NodePool, MaxKids)}

\* no call made
NoCall == [label |-> "", result |-> <<>>]
NoHelperCall == [fn |-> "", arg |-> <<>>, done |-> FALSE, result |-> <<>>]

\* run_batch not called
NoBatch ==
    [loadable |-> FALSE, links |-> <<>>, offset |-> 0, limit |-> NoInt,
     entries |-> <<>>, next |-> 0, invoked |-> <<>>, success_file |-> <<>>,
     failure_file |-> <<>>, success_count |-> 0, failure_count |-> 0, exit |-> NoInt]

(***************************************************************************)
(* Specification of the builder                                            *)
(***************************************************************************)
Init ==
    /\ html \in Docs
    /\ units = <<>>
    /\ unit_ids = {}
    /\ validation = NewValidation
    /\ calls = 0
    /\ outcome = "none"
    /\ returned = <<>>
    /\ indexed = FALSE
    /\ stages = <<>>
    /\ document_metadata = NoMetadata
    /\ label_call = NoCall
    /\ helper_call = NoHelperCall
    /\ batch = NoBatch

Next == Parse \/ Construct

Spec == Init /\ [][Next]_vars

(***************************************************************************)
(* Specification of the two dialects                                       *)
(***************************************************************************)
\* A logical article body: paragraphs, numbered by position or unnumbered,
\* each point a label, a first paragraph, an optional extra paragraph and
\* nested points.
LPoint(label, text, extra, nested) ==
    [label |-> label, text |-> text, extra |-> extra, nested |-> nested]
LParagraph(numbered, text, points) ==
    [numbered |-> numbered, text |-> text, points |-> points]

LParagraphs ==
    {LParagraph(TRUE, TIntro, <<>>),
     LParagraph(TRUE, TIntro, <<LPoint("(a)", TFirst, <<>>, <<>>)>>),
     LParagraph(TRUE, TIntro, <<LPoint("(a)", TFirst, <<>>, <<>>),
                                LPoint("(b)", TPoint, <<>>, <<>>)>>),
     LParagraph(TRUE, TIntro,
                <<LPoint("(a)", TFirst, <<>>, <<LPoint("(i)", TSub, <<>>, <<>>)>>)>>),
     LParagraph(TRUE, TIntro, <<LPoint("(a)", TFirst, TExtra, <<>>)>>),
     LParagraph(TRUE, TIntro,
                <<LPoint("(a)", TFirst, TExtra, <<LPoint("(i)", TSub, <<>>, <<>>)>>)>>),
     LParagraph(FALSE, TPlain, <<>>)}

MaxParagraphs == 2

Structures == SeqsUpTo(LParagraphs, MaxParagraphs) \ {<<>>}

Optional(cls, text) == IF text = <<>> THEN <<>> ELSE <<P(cls, text)>>

\* the OJ rendering: one container per paragraph, the points a list-table
RECURSIVE OJRows(_)
OJRows(points) ==
    [i \in 1..Len(points) |->
        ListRow(points[i].label,
                <<P("oj-normal", points[i].text)>> \o Optional("oj-normal", points[i].extra)
                \o IF points[i].nested = <<>> THEN <<>>
                   ELSE <<ListTable(OJRows(points[i].nested))>>)]

AsOJ(structure) ==
    Doc(<<>>, <<>>,
        <<Article("1", Null,
            [k \in 1..Len(structure) |->
                Div("001.00" \o ToString(k),
                    <<P("oj-normal",
                        (IF structure[k].numbered THEN <<ToString(k) \o ".">> ELSE <<>>)
                        \o structure[k].text)>>
                    \o IF structure[k].points = <<>> THEN <<>>
                       ELSE <<ListTable(OJRows(structure[k].points))>>)])>>)

\* the consolidated rendering: a numbered paragraph is a div.norm, an
\* unnumbered one a p.norm, the points grid-containers
RECURSIVE Grids(_)
Grids(points) ==
    [i \in 1..Len(points) |->
        Grid(points[i].label,
             <<P("norm", points[i].text)>> \o Optional("norm", points[i].extra)
             \o Grids(points[i].nested))]

AsConsolidated(structure) ==
    Doc(<<>>, <<>>,
        <<[Article("1", Null,
            [k \in 1..Len(structure) |->
                IF structure[k].numbered
                THEN NormDiv(ToString(k) \o ".", TRUE,
                             <<P("norm", structure[k].text)>> \o Grids(structure[k].points))
                ELSE P("norm", structure[k].text)])
           EXCEPT !.title_cls = "title-article-norm"]>>)

\* grid-containers nested n deep under the outermost one
RECURSIVE DeepGrid(_)
DeepGrid(n) ==
    IF n = 0 THEN Grid("(a)", <<P("norm", TDeep)>>)
    ELSE Grid("(a)", <<P("norm", TLevel), DeepGrid(n - 1)>>)

\* consolidated bodies outside the renderings: a div.norm without
\* inline-element, one without a no-parag span, a grid directly under the
\* article, and grids nested past the ceiling
LooseBodies ==
    {<<NormDiv("1.", FALSE, <<P("norm", TIntro), Grid("(a)", <<P("norm", TFirst)>>)>>)>>,
     <<NormDiv(Null, FALSE, <<P("norm", TPlain)>>)>>,
     <<P("norm", TIntro), Grid("(a)", <<Str(TBare)>>)>>,
     <<NormDiv("1.", TRUE, <<P("norm", TIntro), DeepGrid(GridDepthLimit + 1)>>)>>}

DialectDocs ==
    {AsOJ(structure) : structure \in Structures}
    \cup {AsConsolidated(structure) : structure \in Structures}
    \cup {Doc(<<>>, <<>>,
               <<[Article("1", Null, body) EXCEPT !.title_cls = "title-article-norm"]>>) :
            body \in LooseBodies}
    \cup {MakeDoc("numbered", <<TblDeep>>)}

InitDialects ==
    /\ html \in DialectDocs
    /\ units = <<>>
    /\ unit_ids = {}
    /\ validation = NewValidation
    /\ calls = 0
    /\ outcome = "none"
    /\ returned = <<>>
    /\ indexed = FALSE
    /\ stages = <<>>
    /\ document_metadata = NoMetadata
    /\ label_call = NoCall
    /\ helper_call = NoHelperCall
    /\ batch = NoBatch

SpecDialects == InitDialects /\ [][Next]_vars

(***************************************************************************)
(* Specification of the builder over amending articles                     *)
(***************************************************************************)
TAmendment == <<"Amended", "provision", "text">>
TReplaced  == <<"Replaced", "provision", "text">>
TFollows   == <<"Regulation", "(EU)", "2016/679", "is", "amended", "as", "follows:">>

\* the children of an amending article: one text as a paragraph, with a
\* number, as a bare text node, in a wrapping div, in the cell of a data
\* table and as a point of a list table; a second text as a paragraph
AmendingPool ==
    {P("oj-normal", TAmendment), P("oj-normal", <<"1.">> \o TAmendment), Str(TAmendment),
     Div("", <<P("oj-normal", TAmendment)>>),
     Table(<<>>, <<<<Td(<<P("oj-normal", TAmendment)>>)>>>>),
     ListTable(<<ListRow("(a)", <<P("oj-normal", TAmendment)>>)>>),
     P("oj-normal", TReplaced)}

\* an amending article by its subtitle, and one by its first paragraph
AmendingDocs ==
    {Doc(<<>>, <<>>, <<Article("1", "Amendments to Regulation (EC) No 1060/2009", kids)>>) :
        kids \in SeqsUpTo(AmendingPool, MaxKids)}
    \cup {Doc(<<>>, <<>>, <<Article("1", Null, <<P("oj-normal", TFollows)>> \o kids)>>) :
        kids \in SeqsUpTo(AmendingPool, MaxKids)}

InitAmending ==
    /\ html \in AmendingDocs
    /\ units = <<>>
    /\ unit_ids = {}
    /\ validation = NewValidation
    /\ calls = 0
    /\ outcome = "none"
    /\ returned = <<>>
    /\ indexed = FALSE
    /\ stages = <<>>
    /\ document_metadata = NoMetadata
    /\ label_call = NoCall
    /\ helper_call = NoHelperCall
    /\ batch = NoBatch

SpecAmending == InitAmending /\ [][Next]_vars

(***************************************************************************)
(* Specification of the citation stages                                    *)
(***************************************************************************)
\* The citation stages are entry points of the parser object, run on units
\* that were put into parser.units.
Phrases ==
    {<<"Article", "6(1)(c)">>, <<"of", "Regulation", "(EU)", "2016/679">>,
     <<"Directive", "2014/59/EU">>, <<"that", "Directive">>,
     <<"points", "(a)", "and", "(b)">>, <<"point", "(a)", "of">>,
     <<"Article", "5">>, <<"or", "7">>, <<"Articles", "5", "and", "6(1)">>,
     <<"paragraph", "5">>, <<"of", "this", "Article">>, <<"applies:">>}

MaxPhrases == 2

\* one Directive cited twice, and two Directives, before "that Directive"
TSameActTwice ==
    <<"Directive", "2014/59/EU", "and", "Directive", "2014/59/EU", "and", "that", "Directive">>
TTwoActs ==
    <<"Directive", "2014/59/EU", "and", "Directive", "2013/36/EU", "and", "that", "Directive">>

\* a point enumeration after an article of another act, and after an
\* article and a colon
TActThenPoints ==
    <<"Article", "6(1)(c)", "of", "Regulation", "(EU)", "2016/679", "points", "(a)", "and", "(b)">>
TBreakThenPoints == <<"Article", "5", "applies:", "points", "(a)", "and", "(b)">>

TFirstSubparagraph == <<"the", "first", "subparagraph">>
TSecondSubparagraph == <<"the", "second", "subparagraph">>
TSubparagraphOfParagraph == <<"the", "first", "subparagraph", "of", "paragraph", "5">>

CiteTexts ==
    {Flatten(q) : q \in SeqsUpTo(Phrases, MaxPhrases)}
    \cup {TSameActTwice, TTwoActs, TActThenPoints, TBreakThenPoints}
    \cup {TFirstSubparagraph, TSecondSubparagraph, TSubparagraphOfParagraph}

Frames == {"bare", "targets", "amendment", "amending heading", "built"}

THeading == "Amendments to Regulation (EC) No 1060/2009"

TargetUnits ==
    <<Unit("art-1.par-2.pt-a", "point", "(a)", TPoint, "art-1.par-2", "1", "2"),
      Unit("art-1.par-5", "paragraph", "5.", TPlain, "art-1", "1", "5"),
      Unit("art-5", "article", "Article 5", <<>>, Null, "5", Null),
      Unit("art-6", "article", "Article 6", <<>>, Null, "6", Null),
      Unit("art-6.par-1", "paragraph", "1.", TIntro, "art-6", "6", "1"),
      Unit("art-6.par-1.pt-c", "point", "(c)", TPoint, "art-6.par-1", "6", "1")>>

\* a document that parse() builds into units: paragraph 1 of Article 1 with
\* a second <p>, its subparagraph, and a list-table after it whose row (c)
\* holds the text
BuiltDoc(text) ==
    Doc(<<>>, <<>>,
        <<Article("1", Null,
            <<Div("001.001",
                <<P("oj-normal", TNum), P("oj-normal", TPlain),
                  ListTable(<<ListRow("(a)", <<P("oj-normal", TPoint)>>),
                              ListRow("(b)", <<P("oj-normal", TFirst)>>),
                              ListRow("(c)", <<P("oj-normal", text)>>)>>)>>)>>)>>)

\* parser.units: paragraph 2 of Article 1 holds the text; in the frame
\* "built" the units are those parse() returned for BuiltDoc
InjectedUnits(frame, text) ==
    IF frame = "built" THEN _enrich(BuilderPass(<<>>, {}, BuiltDoc(text)).units)
    ELSE
    <<[Unit("art-1", "article", "Article 1", <<>>, Null, "1", Null)
          EXCEPT !.heading = IF frame = "amending heading" THEN THeading ELSE Null],
      [Unit("art-1.par-2", "paragraph", "2.", text, "art-1", "1", "2")
          EXCEPT !.is_amendment_text = (frame = "amendment")]>>
    \o (IF frame = "targets" THEN TargetUnits ELSE <<>>)

InitCite ==
    /\ \E frame \in Frames, text \in CiteTexts :
          /\ units = InjectedUnits(frame, text)
          /\ IF frame = "built"
             THEN /\ html = BuiltDoc(text)
                  /\ unit_ids = IdsOf(units)
                  /\ validation = _validate(
                                      [NewValidation EXCEPT
                                          !.counts_expected = _count_expected_elements(html),
                                          !.counts_parsed = _count_parsed_elements(units)],
                                      units)
                  /\ calls = 1
                  /\ outcome = "returned"
                  /\ returned = units
                  /\ indexed = TRUE
                  /\ document_metadata = _compute_document_metadata(units)
             ELSE /\ html = Doc(<<>>, <<>>, <<>>)
                  /\ unit_ids = {}
                  /\ validation = NewValidation
                  /\ calls = 0
                  /\ outcome = "none"
                  /\ returned = <<>>
                  /\ indexed = FALSE
                  /\ document_metadata = NoMetadata
    /\ stages = <<>>
    /\ label_call = NoCall
    /\ helper_call = NoHelperCall
    /\ batch = NoBatch

Ran(stage) == \E k \in 1..Len(stages) : stages[k] = stage

\* parser._enrich()
Enrich ==
    /\ outcome # "raised" /\ ~Ran("enrich")
    /\ units' = _enrich(units)
    /\ indexed' = TRUE
    /\ document_metadata' = _compute_document_metadata(units')
    /\ stages' = Append(stages, "enrich")
    /\ UNCHANGED <<html, unit_ids, validation, calls, outcome, returned, others>>

\* parser._extract_citations()
ExtractCitations ==
    /\ outcome # "raised" /\ ~Ran("extract")
    /\ units' = _extract_citations(units)
    /\ stages' = Append(stages, "extract")
    /\ UNCHANGED <<html, unit_ids, validation, calls, outcome, returned, indexed,
                   document_metadata, others>>

\* parser._resolve_citations()
ResolveCitations ==
    LET Finish(st) ==
            /\ units' = st.units
            /\ outcome' = IF st.exc # Null THEN "raised" ELSE outcome
    IN  /\ outcome # "raised" /\ ~Ran("resolve")
        /\ Finish(_resolve_citations(units, indexed))
        /\ stages' = Append(stages, "resolve")
        /\ UNCHANGED <<html, unit_ids, validation, calls, returned, indexed,
                       document_metadata, others>>

NextCite == Enrich \/ ExtractCitations \/ ResolveCitations

SpecCite == InitCite /\ [][NextCite]_vars

(***************************************************************************)
(* Specification of the label normalizer                                   *)
(***************************************************************************)
\* the parser object as constructed, untouched by the label normalizer
FreshParser ==
    /\ html = Doc(<<>>, <<>>, <<>>)
    /\ units = <<>>
    /\ unit_ids = {}
    /\ validation = NewValidation
    /\ calls = 0
    /\ outcome = "none"
    /\ returned = <<>>
    /\ indexed = FALSE
    /\ stages = <<>>
    /\ document_metadata = NoMetadata

InitLabel ==
    /\ FreshParser
    /\ \E p \in LabelShapes : label_call = [label |-> Render(p), result |-> <<>>]
    /\ batch = NoBatch
    /\ helper_call = NoHelperCall

\* normalize_label(label)
NormalizeLabel ==
    /\ label_call.result = <<>>
    /\ label_call' = [label_call EXCEPT !.result = normalize_label(label_call.label)]
    /\ UNCHANGED <<html, units, unit_ids, validation, calls, outcome, returned, indexed,
                   stages, document_metadata, batch, helper_call>>

NextLabel == NormalizeLabel

SpecLabel == InitLabel /\ [][NextLabel]_vars

(***************************************************************************)
(* Specification of the batch runner                                       *)
(***************************************************************************)
\* What the three stages do for an entry is decided outside run_batch (the
\* network, the parser and coverage subprocesses): an entry carries the
\* result each stage gives when it is invoked for it.
Fates ==
    {[download |-> <<FALSE, "http_404">>, parse |-> <<TRUE, "ok">>, passed |-> TRUE],
     [download |-> <<TRUE, "playwright">>, parse |-> <<FALSE, "parser_timeout">>, passed |-> TRUE],
     [download |-> <<TRUE, "already_downloaded">>, parse |-> <<TRUE, "ok">>, passed |-> FALSE],
     [download |-> <<TRUE, "requests_fallback">>, parse |-> <<TRUE, "already_parsed">>, passed |-> TRUE]}

MaxEntries == 3

\* the report run_coverage returns: passing, or with a missing segment
CoverageReport(entry) ==
    IF entry.passed
    THEN [coverage_pct |-> 100, gone |-> 0, phantom_count |-> 0, hierarchy_ok |-> TRUE,
          ordering_ok |-> TRUE, notes |-> ""]
    ELSE [coverage_pct |-> 90, gone |-> 1, phantom_count |-> 0, hierarchy_ok |-> TRUE,
          ordering_ok |-> TRUE, notes |-> ""]

\* the record written for an entry that failed before coverage
FailureRecord(i, note) ==
    [url |-> i, coverage_pct |-> 0, gone |-> NoInt, phantom_count |-> NoInt,
     hierarchy_ok |-> FALSE, ordering_ok |-> FALSE, notes |-> note]

\* the record written for an entry that reached coverage
CoverageRecord(i, cov) ==
    [url |-> i, coverage_pct |-> cov.coverage_pct, gone |-> cov.gone,
     phantom_count |-> cov.phantom_count, hierarchy_ok |-> cov.hierarchy_ok,
     ordering_ok |-> cov.ordering_ok, notes |-> cov.notes]

Invoke(b, i, stage) == [b EXCEPT !.invoked = Append(@, <<i, stage>>)]

Failed(b, i, note) ==
    [b EXCEPT !.failure_file = Append(@, FailureRecord(i, note)),
              !.failure_count = @ + 1,
              !.next = i + 1]

\* a loop body that goes on to the parser after a failed download
ParseAfterFailedDownload(b, i) ==
    LET entry == b.entries[i]
        Covered(b3, cov) ==
            IF cov.gone = 0 /\ cov.phantom_count = 0 /\ cov.hierarchy_ok /\ cov.ordering_ok
               /\ cov.coverage_pct > 0
            THEN [b3 EXCEPT !.success_file = Append(@, CoverageRecord(i, cov)),
                            !.success_count = @ + 1, !.next = i + 1]
            ELSE [b3 EXCEPT !.failure_file = Append(@, CoverageRecord(i, cov)),
                            !.failure_count = @ + 1, !.next = i + 1]
        Parsed(b2) ==
            IF ~entry.parse[1] THEN Failed(b2, i, "parse_failed: " \o entry.parse[2])
            ELSE Covered(Invoke(b2, i, "coverage"), CoverageReport(entry))
        Downloaded(b1) == Parsed(Invoke(b1, i, "parse"))
    IN  Downloaded(Invoke(b, i, "download"))

\* the body of the loop of run_batch for entry i
LoopBody(b, i) ==
    LET entry == b.entries[i]
        Covered(b3, cov) ==
            IF cov.gone = 0 /\ cov.phantom_count = 0 /\ cov.hierarchy_ok /\ cov.ordering_ok
               /\ cov.coverage_pct > 0
            THEN [b3 EXCEPT !.success_file = Append(@, CoverageRecord(i, cov)),
                            !.success_count = @ + 1, !.next = i + 1]
            ELSE [b3 EXCEPT !.failure_file = Append(@, CoverageRecord(i, cov)),
                            !.failure_count = @ + 1, !.next = i + 1]
        Parsed(b2) ==
            IF ~entry.parse[1] THEN Failed(b2, i, "parse_failed: " \o entry.parse[2])
            ELSE Covered(Invoke(b2, i, "coverage"), CoverageReport(entry))
        Downloaded(b1) ==
            IF ~entry.download[1] THEN Failed(b1, i, "download_failed: " \o entry.download[2])
            ELSE Parsed(Invoke(b1, i, "parse"))
    IN  Downloaded(Invoke(b, i, "download"))

\* a slice that ignores the offset
SliceFromStart(entries, offset, limit) ==
    IF offset < 0 \/ (limit # NoInt /\ limit <= 0) THEN [exc |-> "ValueError", entries |-> <<>>]
    ELSE [exc |-> Null,
          entries |-> SubSeq(entries, 1,
                             IF limit = NoInt \/ limit > Len(entries) THEN Len(entries)
                             ELSE limit)]

\* slice_entries(entries, offset, limit); limit None is NoInt
slice_entries(entries, offset, limit) ==
    IF offset < 0 \/ (limit # NoInt /\ limit <= 0) THEN [exc |-> "ValueError", entries |-> <<>>]
    ELSE [exc |-> Null,
          entries |-> SubSeq(entries, offset + 1,
                             IF limit = NoInt \/ offset + limit > Len(entries)
                             THEN Len(entries) ELSE offset + limit)]

Offsets == {0 - 1, 0, 1}
Limits == {NoInt, 0, 2}

\* what a report file holds from an earlier run
StaleReports == {<<>>, <<FailureRecord(0, "earlier run")>>}

InitBatch ==
    /\ FreshParser
    /\ label_call = NoCall
    /\ helper_call = NoHelperCall
    /\ \E links \in SeqsUpTo(Fates, MaxEntries), loadable \in BOOLEAN,
          offset \in Offsets, limit \in Limits, stale \in StaleReports :
          batch = [NoBatch EXCEPT !.links = links, !.loadable = loadable,
                                  !.offset = offset, !.limit = limit,
                                  !.success_file = stale, !.failure_file = stale]

parser_state ==
    <<html, units, unit_ids, validation, calls, outcome, returned, indexed, stages,
      document_metadata>>

\* run_batch up to the loop: it returns 1 when the links file is missing or
\* the slice is invalid, else the entries are loaded and sliced and both
\* report files emptied
StartBatch ==
    /\ batch.next = 0 /\ batch.exit = NoInt
    /\ batch' = IF ~batch.loadable THEN [batch EXCEPT !.exit = 1]
                ELSE IF slice_entries(batch.links, batch.offset, batch.limit).exc # Null
                THEN [batch EXCEPT !.exit = 1]
                ELSE [batch EXCEPT
                        !.entries = slice_entries(batch.links, batch.offset,
                                                  batch.limit).entries,
                        !.next = 1, !.success_file = <<>>, !.failure_file = <<>>]
    /\ UNCHANGED <<parser_state, label_call, helper_call>>

\* one iteration of the loop over the entries
ProcessEntry ==
    /\ batch.exit = NoInt
    /\ batch.next >= 1 /\ batch.next <= Len(batch.entries)
    /\ batch' = LoopBody(batch, batch.next)
    /\ UNCHANGED <<parser_state, label_call, helper_call>>

\* the summary and the return value
ReturnBatch ==
    /\ batch.exit = NoInt
    /\ batch.next = Len(batch.entries) + 1
    /\ batch' = [batch EXCEPT !.exit = IF batch.failure_count = 0 THEN 0 ELSE 1]
    /\ UNCHANGED <<parser_state, label_call, helper_call>>

NextBatch == StartBatch \/ ProcessEntry \/ ReturnBatch

SpecBatch == InitBatch /\ [][NextBatch]_vars

(***************************************************************************)
(* Hierarchy and ordering validation of the coverage tooling               *)
(***************************************************************************)
parent_type_rules(unit_type) ==
    CASE unit_type = "subparagraph" -> {"paragraph"}
      [] unit_type = "point"        -> {"paragraph", "subparagraph", "article"}
      [] unit_type = "subpoint"     -> {"point", "annex_item"}
      [] unit_type = "subsubpoint"  -> {"subpoint"}
      [] OTHER                      -> {}

RuledTypes == {"subparagraph", "point", "subpoint", "subsubpoint"}

\* "segment in unit_id" for the ids the builder makes: the segment follows
\* the id of a unit (or nothing) and is followed by nothing or by the
\* suffix _n of a renamed id
SegmentIn(us, segment, unit_id) ==
    \E pre \in {""} \cup {us[i].id : i \in 1..Len(us)}
                    \cup {us[i].parent_id : i \in 1..Len(us)},
       post \in {""} \cup {"_" \o ToString(n) : n \in 1..Len(us)} :
        unit_id = pre \o segment \o post

\* the issues validate_hierarchy appends for one unit, in order
IssuesOf(us, unit) ==
    LET holders == {i \in 1..Len(us) : us[i].id = unit.parent_id}
        Issue(type) == <<[type |-> type, id |-> unit.id]>>
    IN  (IF unit.parent_id # Null /\ holders = {} THEN Issue("orphan") ELSE <<>>)
     \o (IF /\ unit.parent_id # Null /\ unit.type \in RuledTypes /\ holders # {}
            /\ us[SetMax(holders)].type \notin parent_type_rules(unit.type)
         THEN Issue("wrong_parent_type") ELSE <<>>)
     \o (IF /\ unit.type = "paragraph" /\ unit.paragraph_number # Null
            /\ ~SegmentIn(us, ".par-" \o unit.paragraph_number, unit.id)
         THEN Issue("id_mismatch") ELSE <<>>)
     \o (IF /\ unit.type = "point" /\ unit.point_label # Null
            /\ ~SegmentIn(us, ".pt-" \o unit.point_label, unit.id)
         THEN Issue("id_mismatch") ELSE <<>>)

validate_hierarchy(us) ==
    LET issues == Flatten([i \in 1..Len(us) |-> IssuesOf(us, us[i])])
    IN  [valid |-> issues = <<>>, issues |-> issues]

\* the state of the loop over the types of one parent's children, after
\* the first i of them
RECURSIVE OrderingState(_, _)
OrderingState(types, i) ==
    IF i = 0 THEN "start"
    ELSE LET Step(state, t) ==
                IF state = "start"
                THEN IF t = "point" THEN "points"
                     ELSE IF t = "subparagraph" THEN "intro_subpar" ELSE state
                ELSE IF state = "intro_subpar"
                THEN IF t = "point" THEN "points" ELSE state
                ELSE IF state = "points"
                THEN IF t = "subparagraph" THEN "gap_subpar" ELSE state
                ELSE IF t = "point" THEN "points"
                     ELSE IF t # "subparagraph" THEN "start" ELSE state
         IN  Step(OrderingState(types, i - 1), types[i])

\* the issues the loop appends while it walks the children of one parent:
\* no state of the loop appends one
OrderingIssues(types) ==
    SelectSeq([i \in 1..Len(types) |-> OrderingState(types, i)], LAMBDA state : FALSE)

validate_ordering(us) ==
    LET parents == {us[i].parent_id : i \in 1..Len(us)} \ {Null, ""}
        TypesUnder(pid) ==
            LET kids == SelectSeq(us, LAMBDA u : u.parent_id = pid)
            IN  [k \in 1..Len(kids) |-> kids[k].type]
        Mixed(types) ==
            /\ \E k \in 1..Len(types) : types[k] = "point"
            /\ \E k \in 1..Len(types) : types[k] = "subparagraph"
        issues == IF \E pid \in parents :
                        Mixed(TypesUnder(pid)) /\ OrderingIssues(TypesUnder(pid)) # <<>>
                  THEN <<"issue">> ELSE <<>>
    IN  [valid |-> issues = <<>>, issues |-> issues]

(***************************************************************************)
(* Specification of the helper functions                                   *)
(***************************************************************************)
\* the percentage a <col> declares as its width; NoInt when it declares none
ColWidths == {NoInt, 10, 15, 20}

\* the <col> declarations of a table: none, one, two or three
ColDecls ==
    {<<>>, <<NoInt>>}
    \cup {<<w, NoInt>> : w \in ColWidths}
    \cup {<<w, NoInt, NoInt>> : w \in ColWidths}

\* first cells: a label in a <p> wrapper, a bare label, a word that is no
\* label, a text longer than 15 characters, a label followed by a second <p>
FirstCells ==
    {Td(<<P("oj-normal", <<"(a)">>)>>), Td(<<Str(<<"(i)">>)>>),
     Td(<<P("oj-normal", <<"Name">>)>>),
     Td(<<P("oj-normal", <<"Controller", "means">>)>>),
     Td(<<P("oj-normal", <<"1.">>), P("oj-normal", <<"Name">>)>>)}

MaxCells == 3

FirstRows ==
    {<<>>}
    \cup {<<c>> \o [k \in 1..n |-> Td(<<P("oj-normal", TPoint)>>)] :
            c \in FirstCells, n \in 0..(MaxCells - 1)}

Tables ==
    {Table(cols, <<>>) : cols \in ColDecls}
    \cup {Table(cols, <<row>>) : cols \in ColDecls, row \in FirstRows}

\* act_part1 is \d{2,4}, act_part2 is \d+
ActPart1s == {"12", "36", "92", "95", "679", "1234", "1408", "1900", "1901", "2016", "2100"}
ActPart2s == {"1", "12", "46", "92", "679", "999", "1900", "2016", "2101", "12345"}
ActTypes == {"regulation", "directive", "decision"}

\* the act_year and celex a builder of an external citation derives from
\* the two parts of the act number (no framework decision)
ActYearAndCelex(act_type, act_part1, act_part2) ==
    LET Derived(parsed) ==
            IF parsed = <<>> THEN [act_year |-> NoInt, celex |-> Null]
            ELSE [act_year |-> parsed[1],
                  celex |-> _to_celex(act_type, parsed[1], parsed[2])]
    IN  Derived(_parse_act_year_number(act_part1, act_part2))

MaxChildren == 4

\* the children of the paragraph art-1.par-1, of these types in this order
Children(types) ==
    <<Unit("art-1.par-1", "paragraph", "1.", <<>>, "art-1", "1", "1")>>
    \o [k \in 1..Len(types) |->
            Unit("art-1.par-1.unit-" \o ToString(k), types[k], Null, <<>>,
                 "art-1.par-1", "1", "1")]

ChildLists ==
    {Children(types) : types \in SeqsUpTo({"point", "subparagraph", "subpoint"}, MaxChildren)}

InitHelpers ==
    /\ FreshParser
    /\ label_call = NoCall
    /\ batch = NoBatch
    /\ \/ \E t \in Tables :
            helper_call = [fn |-> "is_list_table", arg |-> t, done |-> FALSE, result |-> <<>>]
       \/ \E a \in ActTypes, p1 \in ActPart1s, p2 \in ActPart2s :
            helper_call = [fn |-> "_parse_act_year_number", arg |-> <<a, p1, p2>>,
                           done |-> FALSE, result |-> <<>>]
       \/ \E us \in ChildLists :
            helper_call = [fn |-> "validate_ordering", arg |-> us,
                           done |-> FALSE, result |-> <<>>]

\* is_list_table(table)
IsListTable ==
    /\ helper_call.fn = "is_list_table"
    /\ ~helper_call.done
    /\ helper_call' = [helper_call EXCEPT !.done = TRUE,
                                          !.result = is_list_table(helper_call.arg)]
    /\ UNCHANGED <<parser_state, label_call, batch>>

\* _parse_act_year_number(act_part1, act_part2) and _to_celex on its result
ParseActYearNumber ==
    /\ helper_call.fn = "_parse_act_year_number"
    /\ ~helper_call.done
    /\ helper_call' =
            [helper_call EXCEPT
                !.done = TRUE,
                !.result = ActYearAndCelex(helper_call.arg[1], helper_call.arg[2],
                                           helper_call.arg[3])]
    /\ UNCHANGED <<parser_state, label_call, batch>>

\* validate_ordering(units)
ValidateOrdering ==
    /\ helper_call.fn = "validate_ordering"
    /\ ~helper_call.done
    /\ helper_call' = [helper_call EXCEPT !.done = TRUE,
                                          !.result = validate_ordering(helper_call.arg)]
    /\ UNCHANGED <<parser_state, label_call, batch>>

NextHelpers == IsListTable \/ ParseActYearNumber \/ ValidateOrdering

SpecHelpers == InitHelpers /\ [][NextHelpers]_vars

(***************************************************************************)
(* The naive text oracle of the coverage tooling                           *)
(***************************************************************************)
\* get_text(separator="\n"): the text nodes of a node list in document order
RECURSIVE TextNodes(_)
TextNodes(kids) ==
    Flatten([i \in 1..Len(kids) |->
        IF kids[i].k \in {"p", "str"} THEN <<kids[i].text>>
        ELSE IF kids[i].k = "div" THEN TextNodes(kids[i].kids)
        ELSE Flatten([r \in 1..Len(kids[i].rows) |->
                Flatten([c \in 1..Len(kids[i].rows[r]) |->
                    TextNodes(kids[i].rows[r][c].kids)])])])

\* the words of the input texts that LEADING_NUM_RE, LEADING_REF_RE or
\* LEADING_DASH_RE take off the head of a line
LeadingRefWords ==
    {"1.", "2.", "(a)", "(b)", "(c)", "(i)", "(1)", "(3)", "5",
     "Data", "More", "cell", "item", "text"}

RECURSIVE strip_leading_ref(_)
strip_leading_ref(line) ==
    IF Len(line) >= 2 /\ line[1] \in LeadingRefWords
    THEN strip_leading_ref(Tail(line)) ELSE line

\* LABEL_ONLY_RE ("Article <digits> ...") or PUNCT_LABEL_RE (one short token)
looks_like_label(line) ==
    \/ line = <<>>
    \/ Len(line) >= 2 /\ Lower(line[1]) = "article" /\ NumParts(line[2]).article # Null
    \/ Len(line) = 1 /\ line[1] \in LeadingRefWords

min_len == 10

extract_naive_segments(kids) ==
    LET lines == TextNodes(kids)
        stripped == [k \in 1..Len(lines) |-> strip_leading_ref(lines[k])]
    IN  SelectSeq(stripped, LAMBDA l : CharLen(l) >= min_len /\ ~looks_like_label(l))

(***************************************************************************)
(* Properties of the builder                                               *)
(***************************************************************************)
Returned == outcome = "returned"
ReturnedIds == {returned[i].id : i \in 1..Len(returned)}

\* C1: after parse() returns, no two units of the returned sequence have the
\* same id (a colliding id is renamed with a numeric suffix).
UniqueIds ==
    Returned =>
        \A i, j \in 1..Len(returned) : i # j => returned[i].id # returned[j].id

\* a returned sequence in which a colliding id was renamed
RenamedUnitReturned ==
    /\ Returned
    /\ \E i, j \in 1..Len(returned) :
          /\ returned[i].id = "art-1.par-1.pt-b"
          /\ returned[j].id = "art-1.par-1.pt-b_1"

\* C2: every parse() of the same document returns the same unit sequence, also
\* when the calls are made on one EUParser instance: a second call returns
\* what the first returned, and counts_parsed counts only that input's units.
ParseIsIdempotent ==
    [][(Returned /\ outcome' = "returned" /\ calls' = calls + 1)
          => /\ returned' = returned
             /\ validation'.counts_parsed = validation.counts_parsed]_vars

\* C3: every text segment of at least 10 characters inside a recital or an
\* article of the input occurs verbatim in the text of a returned unit of that
\* container.
NoTextLoss ==
    (Returned /\ calls = 1) =>
        /\ \A a \in 1..Len(html.articles) :
              LET segments == extract_naive_segments(html.articles[a].kids) IN
              \A k \in 1..Len(segments) :
                  \E i \in 1..Len(returned) :
                      /\ returned[i].article_number = html.articles[a].num
                      /\ Contains(returned[i].text, segments[k])
        /\ \A r \in 1..Len(html.recitals) :
              LET segments == extract_naive_segments(html.recitals[r].kids) IN
              \A k \in 1..Len(segments) :
                  \E i \in 1..Len(returned) :
                      /\ returned[i].type = "recital"
                      /\ Contains(returned[i].text, segments[k])

\* C5: parse() never raises because of the shape of the input markup.
ParseNeverRaises == outcome # "raised"

\* C6: when parse() returns, every non-amendment unit with non-empty text
\* carries the citations extracted from its text.
CitationsExtractedOnReturn ==
    Returned =>
        \A i \in 1..Len(returned) :
            (~returned[i].is_amendment_text /\ returned[i].text # <<>>)
                => returned[i].citations = _extract_citations_from_text(returned[i].text)

\* the text nodes of the article, in document order
SourceLines == TextNodes(html.articles[1].kids)
Occurrences(text) == {k \in 1..Len(SourceLines) : SourceLines[k] = text}
\* the unit's text is one text node of the source, found there exactly once
Located(u) == Cardinality(Occurrences(u.text)) = 1
Position(u) == CHOOSE k \in Occurrences(u.text) : TRUE

\* C8: the children of a parent are emitted in the order in which their
\* content occurs in the source.
SiblingsInSourceOrder ==
    (Returned /\ calls = 1) =>
        \A i, j \in 1..Len(returned) :
            (/\ i < j
             /\ returned[i].parent_id = returned[j].parent_id
             /\ Located(returned[i]) /\ Located(returned[j]))
                => Position(returned[i]) < Position(returned[j])

ScenarioDoc == MakeDoc("container", <<P("oj-normal", TNum), TblScenario>>)

\* C10: the list table of the scenario, nested under paragraph art-1.par-1,
\* yields exactly one unit, art-1.par-1.pt-a with point_label "a" and text
\* "Point text".
ScenarioYieldsOneUnit ==
    (Returned /\ calls = 1 /\ html = ScenarioDoc) =>
        LET below == SelectSeq(returned, LAMBDA u : u.id \notin {"art-1", "art-1.par-1"}) IN
        /\ Len(below) = 1
        /\ below[1].id = "art-1.par-1.pt-a"
        /\ below[1].point_label = "a"
        /\ below[1].text = TPoint

(***************************************************************************)
(* Properties of the citation stages                                       *)
(***************************************************************************)
Spans(u) == [k \in 1..Len(u.citations) |-> <<u.citations[k].span_start, u.citations[k].span_end>>]
Disjoint(a, b) == a[2] <= b[1] \/ b[2] <= a[1]

Resolved ==
    /\ outcome # "raised"
    /\ \E h, k \in 1..Len(stages) : h < k /\ stages[h] = "extract" /\ stages[k] = "resolve"

\* C7: after extraction and resolution, the target_node_id of every citation
\* is null or the id of a unit of the document.
TargetsExist ==
    Resolved =>
        \A i \in 1..Len(units) : \A k \in 1..Len(units[i].citations) :
            \/ units[i].citations[k].target_node_id = Null
            \/ units[i].citations[k].target_node_id \in IdsOf(units)

\* C7 (amended): after extraction and resolution, the target_node_id of every
\* internal citation is null or the id of a unit of the document; a citation
\* of an article of another act keeps the address of that article.
InternalTargetsExist ==
    Resolved =>
        \A i \in 1..Len(units) : \A k \in 1..Len(units[i].citations) :
            units[i].citations[k].citation_type = "internal" =>
                \/ units[i].citations[k].target_node_id = Null
                \/ units[i].citations[k].target_node_id \in IdsOf(units)

\* one unit holds an internal citation resolved to a unit and another left
\* without a target
InternalTargetsResolved ==
    /\ Resolved
    /\ \E i \in 1..Len(units) : \E h, k \in 1..Len(units[i].citations) :
          /\ units[i].citations[h].citation_type = "internal"
          /\ units[i].citations[h].target_node_id \in IdsOf(units)
          /\ units[i].citations[k].citation_type = "internal"
          /\ units[i].citations[k].article_label = "7"
          /\ units[i].citations[k].target_node_id = Null

(***************************************************************************)
(* Properties of the document metadata                                     *)
(***************************************************************************)
\* the headings of the model in which
\* re.search(r"Amendments?\s+to\b|Amendment\s+of\b", subtitle, re.IGNORECASE)
\* finds a match
AmendingHeadings == {THeading}

\* an article whose heading is an amendment heading or one of whose units is
\* flagged is_amendment_text
IsAmendingArticle(us, a) ==
    \/ a.heading \in AmendingHeadings
    \/ \E i \in 1..Len(us) :
          /\ us[i].type # "article" /\ us[i].article_number = a.article_number
          /\ us[i].is_amendment_text

\* the article numbers of the amending articles, in document order, once each
RECURSIVE AmendingArticleNumbers(_, _, _)
AmendingArticleNumbers(us, i, listed) ==
    IF i > Len(us) THEN listed
    ELSE AmendingArticleNumbers(us, i + 1,
            IF /\ us[i].type = "article" /\ IsAmendingArticle(us, us[i])
               /\ \A k \in 1..Len(listed) : listed[k] # us[i].article_number
            THEN Append(listed, us[i].article_number) ELSE listed)

\* C11: after enrichment, document_metadata.amendment_articles lists, in
\* document order and once each, the article_number of every article whose
\* heading is an amendment heading or whose units are flagged
\* is_amendment_text, whether or not the article unit carries the flag.
AmendmentArticlesListed ==
    Ran("enrich") =>
        document_metadata.amendment_articles = AmendingArticleNumbers(units, 1, <<>>)


(***************************************************************************)
(* Properties of the label normalizer                                      *)
(***************************************************************************)
\* the label is a roman numeral i .. xxxix, bare or in parentheses
IsRomanLabel(p) == p.body \in RomanBodies /\ ~p.dot /\ p.open = p.close

\* C12: every label that is a lowercase roman numeral in i..xxxix, with or
\* without parentheses and optionally preceded by a quote character, is
\* returned with kind "subpoint" and the roman token, never with kind "point".
RomanIsSubpoint ==
    \A p \in LabelShapes :
        (label_call.label = Render(p) /\ label_call.result # <<>> /\ IsRomanLabel(p))
            => label_call.result = <<p.body, "subpoint", p.quote>>

\* "(i)" was normalized to the roman token "i"
RomanLabelNormalized ==
    /\ label_call.label = "(i)"
    /\ label_call.result = <<"i", "subpoint", FALSE>>


(***************************************************************************)
(* Properties of the resolver                                              *)
(***************************************************************************)
\* what the extractor fixed of the k-th citation of a unit
Extracted(u, k) == <<u.citations[k].span_start, u.citations[k].span_end, u.citations[k].raw_text>>

\* C13: the resolver pass never changes span_start, span_end or raw_text of a
\* citation and never adds, removes or reorders the citations of a unit.
ResolverKeepsSpans ==
    [][stages' = Append(stages, "resolve") =>
          /\ Len(units') = Len(units)
          /\ \A i \in 1..Len(units) :
                /\ Len(units'[i].citations) = Len(units[i].citations)
                /\ \A k \in 1..Len(units[i].citations) :
                      Extracted(units'[i], k) = Extracted(units[i], k)]_vars

\* the resolver filled the article of "paragraph 5" from the unit's context
\* and found its target; the citation does not start the text
ContextFilledByResolver ==
    /\ Resolved
    /\ \E i \in 1..Len(units) : \E k \in 1..Len(units[i].citations) :
          /\ units[i].citations[k].raw_text = <<"paragraph", "5">>
          /\ units[i].citations[k].span_start > 0
          /\ units[i].citations[k].article_label = "1"
          /\ units[i].citations[k].target_node_id = "art-1.par-5"


(***************************************************************************)
(* Properties of the batch runner                                          *)
(***************************************************************************)
\* the stages invoked for entry i, in the order of their invocation
StagesOf(i) ==
    LET mine == SelectSeq(batch.invoked, LAMBDA c : c[1] = i)
    IN  [k \in 1..Len(mine) |-> mine[k][2]]

\* the records of entry i in the failure file
FailuresOf(i) == SelectSeq(batch.failure_file, LAMBDA r : r.url = i)

\* C14: for each entry the stages run in the order download, parse, coverage;
\* after a failed download neither parse nor coverage is invoked, after a
\* failed parse coverage is not invoked; in both cases exactly one failure
\* record with the note "download_failed: ..." or "parse_failed: ..." is
\* written for the entry, the next entry is processed, and run_batch returns 1.
FailedStageStopsEntry ==
    /\ \A i \in 1..Len(batch.entries) :
          i < batch.next =>
            LET entry == batch.entries[i] IN
            /\ ~entry.download[1] =>
                  /\ StagesOf(i) = <<"download">>
                  /\ FailuresOf(i) =
                        <<FailureRecord(i, "download_failed: " \o entry.download[2])>>
            /\ (entry.download[1] /\ ~entry.parse[1]) =>
                  /\ StagesOf(i) = <<"download", "parse">>
                  /\ FailuresOf(i) = <<FailureRecord(i, "parse_failed: " \o entry.parse[2])>>
            /\ (entry.download[1] /\ entry.parse[1]) =>
                  StagesOf(i) = <<"download", "parse", "coverage">>
    /\ (batch.exit # NoInt /\ batch.next > 0) =>
          /\ batch.next = Len(batch.entries) + 1
          /\ (\E i \in 1..Len(batch.entries) :
                 ~batch.entries[i].download[1] \/ ~batch.entries[i].parse[1])
                => batch.exit = 1

\* a run that returned after a failed download, a failed parse and a passing
\* entry, in this order
BatchReturnedAfterFailures ==
    /\ batch.exit = 1
    /\ Len(batch.entries) = 3
    /\ ~batch.entries[1].download[1]
    /\ batch.entries[2].download[1] /\ ~batch.entries[2].parse[1]
    /\ batch.entries[3].download[1] /\ batch.entries[3].parse[1] /\ batch.entries[3].passed
    /\ Len(batch.failure_file) = 2 /\ Len(batch.success_file) = 1


(***************************************************************************)
(* Properties of the paragraph walker                                      *)
(***************************************************************************)
\* the children of the paragraph container of a document whose container
\* opens with the numbered paragraph "1. Intro text:"
NumberedBody == html.articles[1].kids[1].kids
IsNumbered ==
    /\ Len(html.articles) = 1 /\ Len(html.articles[1].kids) = 1
    /\ html.articles[1].kids[1].k = "div" /\ html.articles[1].kids[1].id = "001.001"
    /\ NumberedBody # <<>> /\ NumberedBody[1] = P("oj-normal", TNum)

\* the number of subparagraphs a child of the container starts
SubparagraphsOf(n) ==
    IF n.k = "p" THEN 1
    ELSE IF n.k = "str" THEN (IF CharLen(n.text) >= 10 THEN 1 ELSE 0)
    ELSE IF n.k = "div" THEN Len(KidsOf(n.kids, "p"))
    ELSE 0

RECURSIVE SubparagraphsBefore(_, _)
SubparagraphsBefore(kids, t) ==
    IF t <= 2 THEN 0
    ELSE SubparagraphsBefore(kids, t - 1) + SubparagraphsOf(kids[t - 1])

\* the unit that precedes the table kids[t] in the source
PrecedingUnit(kids, t) ==
    IF SubparagraphsBefore(kids, t) = 0 THEN "art-1.par-1"
    ELSE "art-1.par-1.subpar-" \o ToString(SubparagraphsBefore(kids, t))

\* C15: within an article, every point of a table that follows a paragraph or
\* subparagraph has as parent_id the paragraph or subparagraph that precedes
\* the table in the source, never the one that follows it, whether a <p>, a
\* <p> in a wrapper <div> or a bare text node starts the next subparagraph.
PointsAttachToPrecedingUnit ==
    (Returned /\ calls = 1 /\ IsNumbered) =>
        \A i \in 1..Len(returned) :
            returned[i].type = "point" =>
                \E t \in 2..Len(NumberedBody) :
                    /\ NumberedBody[t].k = "table"
                    /\ returned[i].parent_id = PrecedingUnit(NumberedBody, t)


(***************************************************************************)
(* Properties of renamed units                                             *)
(***************************************************************************)
\* the returned units with this ref and text
UnitsOf(ref, text) == {i \in 1..Len(returned) : returned[i].ref = ref /\ returned[i].text = text}

\* C16: when _add_unit renames a colliding unit, the units created from that
\* structure's own content have the renamed unit's final id as parent_id.  In
\* a table with two rows labelled (b), the second holding "Extra paragraph"
\* and a nested table with the row (i) "Nested point", the nested point is
\* the child of the unit of the second row.
RenamedUnitOwnsItsContent ==
    (Returned /\ calls = 1) =>
        \A j \in UnitsOf("(b)", TExtra), i \in UnitsOf("(i)", TSub) :
            (Cardinality(UnitsOf("(b)", TExtra)) = 1 /\ Cardinality(UnitsOf("(i)", TSub)) = 1)
                => returned[i].parent_id = returned[j].id


(***************************************************************************)
(* Properties of the extractor                                             *)
(***************************************************************************)
TArticleOfRegulation == <<"Article", "6(1)(c)", "of", "Regulation", "(EU)", "2016/679">>

\* C17: a match is accepted only if its span overlaps no span accepted
\* earlier, so the generic patterns yield no citation inside a more specific
\* construct: no citation overlaps an eu_legislation citation, and
\* "Article 6(1)(c) of Regulation (EU) 2016/679" yields a single
\* eu_legislation citation that spans the whole construct.
SpecificConstructNotSplit ==
    Ran("extract") =>
        \A i \in 1..Len(units) :
            /\ \A h, k \in 1..Len(units[i].citations) :
                  (h # k /\ units[i].citations[h].citation_type = "eu_legislation")
                      => Disjoint(Spans(units[i])[h], Spans(units[i])[k])
            /\ (units[i].text = TArticleOfRegulation /\ ~units[i].is_amendment_text)
                  => /\ Len(units[i].citations) = 1
                     /\ units[i].citations[1].citation_type = "eu_legislation"
                     /\ units[i].citations[1].raw_text = TArticleOfRegulation

\* the construct was extracted as one citation of Article 6 of the Regulation
ConstructExtractedWhole ==
    /\ Ran("extract")
    /\ \E i \in 1..Len(units) :
          /\ units[i].text = TArticleOfRegulation
          /\ Len(units[i].citations) = 1
          /\ units[i].citations[1].article_label = "6"
          /\ units[i].citations[1].celex = "32016R0679"


(***************************************************************************)
(* Properties of the two dialects                                          *)
(***************************************************************************)
\* the nesting depth a unit type stands for
DepthOfType(type) ==
    IF type = "point" THEN 0
    ELSE IF type = "subpoint" THEN 1
    ELSE IF type = "subsubpoint" THEN 2
    ELSE NestedDepth(type)

PointTypes == {"point", "subpoint", "subsubpoint"} \cup NestedTypes

\* C18: point recursion types a unit by its depth (point, subpoint,
\* subsubpoint, then nested_N) and stops at the ceiling of 10 without an
\* error: in the OJ list-table walker and in the consolidated grid walker
\* alike, parse() returns and no returned unit is of nesting depth 10 or more.
NoUnitAtDepthCeiling ==
    (calls = 1 /\ html \in DialectDocs) =>
        /\ Returned
        /\ \A i \in 1..Len(returned) :
              returned[i].type \in PointTypes => DepthOfType(returned[i].type) < max_depth

\* what the two walkers are compared on
Emitted(us) ==
    [i \in 1..Len(us) |->
        [type |-> us[i].type, id |-> us[i].id, parent_id |-> us[i].parent_id,
         point_label |-> us[i].point_label, subpoint_label |-> us[i].subpoint_label,
         subsubpoint_label |-> us[i].subsubpoint_label, text |-> us[i].text]]

\* the units parse() returns for the OJ rendering of a structure
OJUnits(structure) == _enrich(BuilderPass(<<>>, {}, AsOJ(structure)).units)

\* C19: for the OJ rendering and the consolidated rendering of one logical
\* structure (numbered and unnumbered paragraphs, labelled points, nested
\* points, an extra paragraph inside a point), the consolidated walker emits
\* the same sequence of unit types, ids, parent_ids, labels and texts as the
\* OJ walker.
WalkersEmitSameUnits ==
    \A structure \in Structures :
        (Returned /\ calls = 1 /\ html = AsConsolidated(structure))
            => Emitted(returned) = Emitted(OJUnits(structure))


(***************************************************************************)
(* Properties of bare contextual references                                *)
(***************************************************************************)
\* the act type a bare contextual reference names, Null for any other text
BareActType(raw_text) ==
    IF Len(raw_text) = 2 /\ raw_text[1] = "that"
       /\ raw_text[2] \in {"Directive", "Regulation", "Decision"}
    THEN Lower(raw_text[2]) ELSE Null

\* the eu_legislation citations of the act type that end before citation k
Antecedents(cits, k) ==
    {j \in 1..Len(cits) :
        /\ j # k
        /\ cits[j].span_end <= cits[k].span_start
        /\ cits[j].citation_type = "eu_legislation"
        /\ cits[j].act_type = BareActType(cits[k].raw_text)}

StaysInternal(c) == c.citation_type = "internal" /\ c.target_node_id = Null

\* C20 as stated: a bare contextual reference ("that Directive", "that
\* Regulation", "that Decision") is reclassified to eu_legislation only if
\* exactly one eu_legislation citation of the matching act type ends before
\* its start in the same unit; with none, or with two or more, it stays
\* internal with a null target_node_id.
BareReclassifiedOnlyAfterOneCitation ==
    Resolved =>
        \A i \in 1..Len(units) : \A k \in 1..Len(units[i].citations) :
            BareActType(units[i].citations[k].raw_text) # Null =>
                IF Cardinality(Antecedents(units[i].citations, k)) = 1
                THEN units[i].citations[k].citation_type \in {"internal", "eu_legislation"}
                ELSE StaysInternal(units[i].citations[k])

\* C20: a bare contextual reference is reclassified to eu_legislation, with
\* the act of its antecedent, exactly when the eu_legislation citations of
\* the matching act type that end before its start in the same unit name one
\* act, in one citation or in several; with none, or with two or more
\* different acts, it stays internal with a null target_node_id.
BareReclassifiedOnlyAfterOneAct ==
    Resolved =>
        \A i \in 1..Len(units) : \A k \in 1..Len(units[i].citations) :
            BareActType(units[i].citations[k].raw_text) # Null =>
                LET Named(cits, prior) ==
                        IF Cardinality({cits[j].act_number : j \in prior}) = 1
                        THEN /\ cits[k].citation_type = "eu_legislation"
                             /\ cits[k].target_node_id = Null
                             /\ \A j \in prior : /\ cits[k].act_number = cits[j].act_number
                                                 /\ cits[k].celex = cits[j].celex
                        ELSE StaysInternal(cits[k])
                IN  Named(units[i].citations, Antecedents(units[i].citations, k))

\* "that Directive" after two citations of Directive 2014/59/EU was
\* reclassified, and after two different Directives it was left internal
BareReferencesResolved ==
    /\ Resolved
    /\ \E i \in 1..Len(units) : \E k \in 1..Len(units[i].citations) :
          /\ units[i].text = TSameActTwice
          /\ BareActType(units[i].citations[k].raw_text) = "directive"
          /\ Cardinality(Antecedents(units[i].citations, k)) = 2
          /\ units[i].citations[k].celex = "32014L0059"


(***************************************************************************)
(* Properties of standalone point enumerations                             *)
(***************************************************************************)
\* the units that are points under a subparagraph
PointsUnderSubparagraph ==
    {i \in 1..Len(units) :
        /\ units[i].type = "point"
        /\ \E p \in 1..Len(units) :
              units[p].id = units[i].parent_id /\ units[p].type = "subparagraph"}

\* C21: for a point that parse() created under a subparagraph, a standalone
\* point enumeration in its text that has no usable preceding anchor resolves
\* to the sibling point of that label under the same subparagraph.
EnumerationResolvesToSiblings ==
    (Resolved /\ html # Doc(<<>>, <<>>, <<>>)) =>
        \A i \in PointsUnderSubparagraph : \A k \in 1..Len(units[i].citations) :
            (/\ _is_standalone_point_enumeration(units[i].citations[k])
             /\ _find_preceding_internal_anchor(units[i], units[i].citations, k) = 0
             /\ units[i].parent_id \o ".pt-" \o units[i].citations[k].point \in IdsOf(units))
                => units[i].citations[k].target_node_id
                      = units[i].parent_id \o ".pt-" \o units[i].citations[k].point

\* the earlier citations with a known article that no '.', ';' or ':'
\* separates from citation k
Anchors(unit, k) ==
    {j \in 1..(k - 1) :
        /\ unit.citations[j].span_end <= unit.citations[k].span_start
        /\ unit.citations[j].article_label # Null
        /\ ~ClauseBreak(unit.text, unit.citations[j].span_end, unit.citations[k].span_start)}

InternalAnchors(unit, k) ==
    {j \in Anchors(unit, k) : unit.citations[j].citation_type = "internal"}

Nearest(S) == CHOOSE j \in S : \A h \in S : h <= j

SameContext(c, anchor) ==
    /\ c.article_label = anchor.article_label
    /\ c.paragraph = anchor.paragraph
    /\ c.subparagraph_ordinal = anchor.subparagraph_ordinal

\* the context of the enclosing unit
OwnContext(c, unit) ==
    /\ c.article_label = _parse_article(unit.article_number)[2]
    /\ c.paragraph = IF _parse_int(unit.paragraph_number) # NoInt
                     THEN _parse_int(unit.paragraph_number) ELSE unit.paragraph_index

\* C22 as stated: a standalone point enumeration takes its article, paragraph
\* and subparagraph from the nearest earlier citation of the unit that has a
\* known article and is not separated from it by '.', ';' or ':'.
EnumerationAnchoredToNearestCitation ==
    Resolved =>
        \A i \in 1..Len(units) : \A k \in 1..Len(units[i].citations) :
            (_is_standalone_point_enumeration(units[i].citations[k])
                /\ Anchors(units[i], k) # {})
                => SameContext(units[i].citations[k],
                               units[i].citations[Nearest(Anchors(units[i], k))])

\* C22: a standalone point enumeration takes its article, paragraph and
\* subparagraph from the nearest earlier internal citation of the unit that
\* has a known article and is not separated from it by '.', ';' or ':'; when
\* every earlier citation is of another act or behind such punctuation, none
\* is its anchor and its article and paragraph are those of the unit.
EnumerationAnchoredToNearestInternal ==
    Resolved =>
        \A i \in 1..Len(units) : \A k \in 1..Len(units[i].citations) :
            _is_standalone_point_enumeration(units[i].citations[k]) =>
                IF InternalAnchors(units[i], k) # {}
                THEN SameContext(units[i].citations[k],
                                 units[i].citations[Nearest(InternalAnchors(units[i], k))])
                ELSE OwnContext(units[i].citations[k], units[i])

\* "points (a) and (b)" took Article 5 from the citation before it, and kept
\* Article 1 of its unit where a colon follows "Article 5 applies"
EnumerationsAnchored ==
    /\ Resolved
    /\ \E i \in 1..Len(units) : \E k \in 1..Len(units[i].citations) :
          /\ units[i].text = <<"Article", "5", "points", "(a)", "and", "(b)">>
          /\ _is_standalone_point_enumeration(units[i].citations[k])
          /\ units[i].article_number = "1"
          /\ units[i].citations[k].article_label = "5"


\* ---------------------------------------------------------------------
\* Properties of ordinal subparagraph citations
\* ---------------------------------------------------------------------

\* the citations of an ordinal subparagraph extracted without an article:
\* only the patterns without an article group leave point empty
OrdinalCitations(unit) ==
    {k \in 1..Len(unit.citations) :
        /\ unit.citations[k].citation_type = "internal"
        /\ unit.citations[k].subparagraph_ordinal # Null
        /\ unit.citations[k].point = Null
        /\ unit.citations[k].article_label # Null
        /\ unit.citations[k].paragraph # NoInt}

\* the paragraph unit for the first subparagraph, subpar-(n-1) for the n-th
ShiftedTarget(c) ==
    "art-" \o c.article_label \o ".par-" \o ToString(c.paragraph)
    \o (IF _ordinal_to_int(c.subparagraph_ordinal) >= 2
        THEN ".subpar-" \o ToString(_ordinal_to_int(c.subparagraph_ordinal) - 1)
        ELSE "")

\* C23: an internal citation of an ordinal subparagraph whose text omitted
\* the article inherits the article of its unit and resolves to the
\* paragraph unit itself for "first" and to subpar-(n-1) of that paragraph
\* for the n-th, whenever that unit is in the document; it never resolves
\* to a unit outside the document.
OrdinalSubparagraphShifted ==
    Resolved =>
        \A i \in 1..Len(units) : \A k \in OrdinalCitations(units[i]) :
            /\ units[i].citations[k].article_label = units[i].article_number
            /\ ShiftedTarget(units[i].citations[k]) \in IdsOf(units)
                    => units[i].citations[k].target_node_id
                            = ShiftedTarget(units[i].citations[k])
            /\ units[i].citations[k].target_node_id # Null
                    => units[i].citations[k].target_node_id \in IdsOf(units)

\* "the first subparagraph" resolved to the paragraph although subpar-1
\* exists, and "the second subparagraph" resolved to subpar-1
OrdinalSubparagraphsResolved ==
    /\ Resolved
    /\ \E i \in 1..Len(units) : \E k \in OrdinalCitations(units[i]) :
            /\ units[i].citations[k].subparagraph_ordinal \in {"first", "second"}
            /\ units[i].citations[k].target_node_id = "art-1.par-1"
                    \o (IF units[i].citations[k].subparagraph_ordinal = "second"
                        THEN ".subpar-1" ELSE "")
            /\ "art-1.par-1.subpar-1" \in IdsOf(units)

\* ---------------------------------------------------------------------
\* Properties of the list-table heuristic
\* ---------------------------------------------------------------------

\* the columns of a table: its <col> declarations when it has any, else
\* the cells of its first row
StructuralColumns(table) ==
    IF table.cols # <<>> THEN Len(table.cols)
    ELSE IF table.rows = <<>> THEN 0
    ELSE Len(table.rows[1])

FirstColumnWide(table) ==
    table.cols # <<>> /\ table.cols[1] # NoInt /\ table.cols[1] > 15

\* the text of a cell, a single <p> wrapper unwrapped
Unwrapped(cell) ==
    IF Len(cell.kids) = 1 /\ cell.kids[1].k = "p" THEN JoinStr(cell.kids[1].text)
    ELSE JoinStr(KidsText(cell.kids, FALSE))

FirstCellIsLabel(table) ==
    /\ table.rows # <<>>
    /\ table.rows[1] # <<>>
    /\ normalize_label(Unwrapped(table.rows[1][1]))[2] # "unknown"
    /\ Len(Unwrapped(table.rows[1][1])) <= 15

\* C24: is_list_table returns true exactly for the tables with two
\* structural columns (two <col> declarations when there are declarations,
\* else two cells in the first row) whose first column is not declared wider
\* than 15% and whose first cell, a single <p> wrapper unwrapped, is a known
\* label of at most 15 characters.
ListTableIffTwoColumnsAndLabel ==
    (helper_call.fn = "is_list_table" /\ helper_call.done) =>
        (helper_call.result <=>
            /\ StructuralColumns(helper_call.arg) = 2
            /\ ~FirstColumnWide(helper_call.arg)
            /\ FirstCellIsLabel(helper_call.arg))

\* ---------------------------------------------------------------------
\* Properties of the act number and the CELEX code
\* ---------------------------------------------------------------------

\* a 4-digit value in the range 1900-2100
PlausibleYear(part) == 1900 <= _parse_int(part) /\ _parse_int(part) <= 2100

TypeLetter(act_type) ==
    IF act_type = "regulation" THEN "R" ELSE IF act_type = "directive" THEN "L" ELSE "D"

\* C25: when the year of an external act reference with the number parts
\* A/B is determined, a part that is a 4-digit value in 1900-2100 is the
\* year, and the CELEX is the ten characters '3', the 4-digit year, the type
\* letter (R, L, D) and the number zero-padded to 4 digits; "Regulation (EU)
\* 2016/679" gives the year 2016 and the CELEX "32016R0679".
YearInRangeAndFixedWidthCelex ==
    (helper_call.fn = "_parse_act_year_number" /\ helper_call.done
     /\ helper_call.result.act_year # NoInt) =>
        /\ (PlausibleYear(helper_call.arg[2]) \/ PlausibleYear(helper_call.arg[3]))
              => \E k \in {2, 3} :
                    /\ PlausibleYear(helper_call.arg[k])
                    /\ helper_call.result.act_year = _parse_int(helper_call.arg[k])
                    /\ helper_call.result.celex =
                          "3" \o helper_call.arg[k] \o TypeLetter(helper_call.arg[1])
                              \o Pad4(_parse_int(helper_call.arg[5 - k]))
        /\ Len(helper_call.result.celex) = 10
        /\ helper_call.arg = <<"regulation", "2016", "679">>
              => helper_call.result = [act_year |-> 2016, celex |-> "32016R0679"]

\* ---------------------------------------------------------------------
\* Properties of the amending-article walker
\* ---------------------------------------------------------------------

\* the units the walker of the amending article art-1 emitted
AmendingUnits ==
    {i \in 1..Len(units) :
        units[i].article_number = "1" /\ units[i].type # "article"}

\* C26: within one amending article no two units the walker emits have the
\* same normalized text, through whichever path of the markup (paragraph,
\* bare text node, wrapping div, table cell) a text is reached.
AmendingTextsEmittedOnce ==
    (outcome = "returned" /\ html \in AmendingDocs) =>
        \A i, k \in AmendingUnits :
            (i # k /\ units[i].text # <<>>) => units[i].text # units[k].text

\* ---------------------------------------------------------------------
\* Properties of the article heading of a unit
\* ---------------------------------------------------------------------

\* the heading of the nearest article on the parent_id chain from the unit
\* with this id, itself included; Null when the chain ends without one
RECURSIVE AncestorHeading(_, _, _)
AncestorHeading(us, id, fuel) ==
    LET found == {i \in 1..Len(us) : us[i].id = id} IN
    IF id = Null \/ found = {} \/ fuel = 0 THEN Null
    ELSE IF \E i \in found : us[i].type = "article"
    THEN us[CHOOSE i \in found : us[i].type = "article"].heading
    ELSE AncestorHeading(us, us[CHOOSE i \in found : TRUE].parent_id, fuel - 1)

Interleaved(us) ==
    \E i, j, k \in 1..Len(us) :
        /\ i < j /\ j < k
        /\ us[i].parent_id = us[j].parent_id /\ us[j].parent_id = us[k].parent_id
        /\ us[i].parent_id # Null
        /\ us[i].type = "point" /\ us[j].type = "subparagraph" /\ us[k].type = "point"

\* C29: validate_ordering returns valid = false with at least one issue when
\* the children of some parent have a subparagraph between two of its points,
\* and valid = true with no issue otherwise.
OrderingFlagsInterleaving ==
    (helper_call.fn = "validate_ordering" /\ helper_call.done) =>
        IF Interleaved(helper_call.arg)
        THEN ~helper_call.result.valid /\ helper_call.result.issues # <<>>
        ELSE helper_call.result.valid /\ helper_call.result.issues = <<>>

\* ---------------------------------------------------------------------
\* Properties of the reports of a batch run
\* ---------------------------------------------------------------------

\* the entries of the links file the offset and the limit select
Selected ==
    LET rest == IF batch.offset >= Len(batch.links) THEN 0
                ELSE Len(batch.links) - batch.offset
        n == IF batch.limit = NoInt \/ batch.limit > rest THEN rest ELSE batch.limit
    IN  [k \in 1..n |-> batch.links[batch.offset + k]]

ValidSlice == batch.offset >= 0 /\ (batch.limit = NoInt \/ batch.limit > 0)

\* the entry passes the three stages
Passes(entry) == entry.download[1] /\ entry.parse[1] /\ entry.passed

Increasing(file) == \A h, k \in 1..Len(file) : h < k => file[h].url < file[k].url

\* C30: with an existing links file and a valid offset and limit, run_batch
\* starts from empty report files and writes one record for each selected
\* entry, to exactly one of the two files and in the order of the entries;
\* it returns 0 exactly when the failure file holds no record.
OneRecordPerSelectedEntry ==
    (batch.loadable /\ ValidSlice /\ batch.next > 0) =>
        /\ batch.entries = Selected
        /\ \A i \in 1..Len(Selected) :
              IF i < batch.next
              THEN /\ Cardinality({k \in 1..Len(batch.success_file) :
                                        batch.success_file[k].url = i})
                        = (IF Passes(Selected[i]) THEN 1 ELSE 0)
                   /\ Cardinality({k \in 1..Len(batch.failure_file) :
                                        batch.failure_file[k].url = i})
                        = (IF Passes(Selected[i]) THEN 0 ELSE 1)
              ELSE /\ \A k \in 1..Len(batch.success_file) : batch.success_file[k].url # i
                   /\ \A k \in 1..Len(batch.failure_file) : batch.failure_file[k].url # i
        /\ Len(batch.success_file) + Len(batch.failure_file) = batch.next - 1
        /\ Increasing(batch.success_file) /\ Increasing(batch.failure_file)
        /\ batch.exit # NoInt =>
              /\ batch.next = Len(Selected) + 1
              /\ batch.exit = 0 <=> batch.failure_file = <<>>

\* a run over the second and third of three links that returned 1 with
\* one record in each report file
SlicedBatchReturned ==
    /\ batch.loadable /\ batch.offset = 1 /\ batch.limit = 2 /\ Len(batch.links) = 3
    /\ batch.exit = 1
    /\ Passes(batch.links[2]) /\ ~Passes(batch.links[3])
    /\ Len(batch.success_file) = 1 /\ batch.success_file[1].url = 1
    /\ Len(batch.failure_file) = 1 /\ batch.failure_file[1].url = 2

=========================================================================
